---- MODULE Spec2Model ----
(***************************************************************************)
(* DoNotMiss: the task lifecycle between the Forge 'tasks' list, the       *)
(* remote task store, the issue tracker, the Forge dashboard (App) and the *)
(* popup's wake-up loop.                                                   *)
(*                                                                         *)
(* Three specifications share the module:                                  *)
(*   Spec      the Forge resolvers (both variants of index.js), invoked    *)
(*             in any order and interleaved at their awaits;               *)
(*   SpecDash  the dashboard App driving the storage-variant resolvers;    *)
(*   SpecWake  wakeUpBackend / checkBackendHealth of the popup, timed in   *)
(*             seconds.                                                    *)
(***************************************************************************)
EXTENDS Integers, Sequences, FiniteSets, TLC

VARIABLES
  store,            \* Forge storage key 'tasks': sequence of task records
  remote,           \* remote task store: id -> [status, jiraKey]
  issues,           \* tracker: issues created, issue key k is index k; value = task id
  calls,            \* resolver invocations in flight: slot -> call record
  bg,               \* fire-and-forget backend resolver invocations in flight
  invoked,          \* resolver invocations made so far
  uiTasks,          \* App state `tasks`
  uiLoading,        \* App state `loading`
  filter,           \* App state `filter`
  showAssignModal,  \* App state `showAssignModal` (0 = null)
  actionLoading,    \* App state `actionLoading`: id -> "null" | "sending" | ...
  syncing,          \* App state `syncing`
  wpc,              \* wakeUpBackend: position of the async function
  probe,            \* health probes: probe -> [st, age], age in seconds while in flight
  lastCheck,        \* the call of checkBackendHealth that returned last: [out, ret],
                    \* the outcome of its request and what the call did
  timerActive,      \* the setInterval timer exists and is not cleared
  timerLeft,        \* seconds until the interval timer fires next
  attempt,          \* wakeUpBackend's `attempt`
  wakeupScreen,     \* wakeup-screen style.display
  mainContent,      \* main-content style.display
  resolveCalls,     \* times resolve(true) ran or the async function returned
  settled,          \* the promise of wakeUpBackend: "pending" | "true"
  continued,        \* times the code awaiting wakeUpBackend() was resumed
  backendUp,        \* the health endpoint is able to answer 200
  captureTask,      \* chrome.storage.local key captureTask: a draft, 0 when not set
  cap,              \* context-menu clicks: click -> the listener's invocation
  surface,          \* the standalone capture window opened for a click: [st, draft],
                    \* draft what it read from captureTask
  pendingTasks,     \* chrome.storage.local key pendingTasks
  popView,          \* the popup's rendered task cards ("unloaded" before the first render)
  hta               \* popup listeners: 0 the DOMContentLoaded listener, 1.. the
                    \* invocations of handleTaskAction

forgeVars == <<store, remote, issues, bg, invoked>>
dashVars == <<uiTasks, uiLoading, filter, showAssignModal, actionLoading, syncing>>
wakeVars == <<wpc, probe, lastCheck, timerActive, timerLeft, attempt, wakeupScreen, mainContent,
              resolveCalls, settled, continued, backendUp>>
capVars == <<captureTask, cap, surface>>
popVars == <<pendingTasks, popView, hta>>
extVars == <<capVars, popVars>>
vars == <<forgeVars, calls, dashVars, wakeVars, extVars>>

---------------------------------------------------------------------------
(* Bounds of the model *)

NumTasks == 2     \* task ids 1..NumTasks
MaxCalls == 2     \* resolver invocations in flight at once (Spec)
MaxIssues == 2    \* issues the tracker accepts before it answers non-2xx
MaxResp == 2      \* length of one backend response to GET /tasks?status=pending
MaxOps == 3       \* resolver invocations in one behaviour of Spec
MaxListOps == 2   \* resolver invocations in one behaviour of SpecStores
MaxCaptures == 2  \* context-menu clicks in one behaviour of SpecCapture
MaxUrlLen == 2    \* pieces of a tab URL given to detectSource
MaxRuns == 3      \* runs of equal characters in a task text
MaxActions == 2   \* clicks on task buttons of the popup in one behaviour of SpecPopup
MaxClicks == 2    \* dashboard actions that invoke a resolver, in one behaviour of SpecDash
MaxAttempt == 4   \* interval ticks of wakeUpBackend that `attempt` counts (the checks
                  \* of WAKEUP_TIMEOUT / WAKEUP_CHECK_INTERVAL + 1 ticks can overlap)

TaskIds == 1..NumTasks
Slots == 1..MaxCalls

---------------------------------------------------------------------------
(* Task records and list helpers *)

\* A record of the 'tasks' list. jiraKey 0 and jiraStatus "none" stand for an
\* absent field; declinedAt is TRUE when the field is present.
NewTask(id) ==
  [id |-> id, status |-> "pending", jiraKey |-> 0, jiraStatus |-> "none",
   declinedAt |-> FALSE, priority |-> "medium"]

\* The priority of a payload: "absent" is undefined or null, "empty" is ''
PayloadPriorities == {"absent", "empty", "highest", "high", "medium", "low"}

\* The priority passed on as it was given
OrMedium_AsGiven(priority) == priority

\* priority || 'medium'
OrMedium(priority) == IF priority \in {"absent", "empty"} THEN "medium" ELSE priority

\* tasks.findIndex(t => t.id === taskId); 0 stands for -1
RECURSIVE FindFrom(_, _, _)
FindFrom(tasks, id, i) ==
  IF i > Len(tasks) THEN 0
  ELSE IF tasks[i].id = id THEN i
  ELSE FindFrom(tasks, id, i + 1)

FindIndex(tasks, id) == FindFrom(tasks, id, 1)

\* tasks.filter(t => t.id !== taskId)
FilterOut(tasks, id) == SelectSeq(tasks, LAMBDA t : t.id # id)

IdsOf(tasks) == {tasks[i].id : i \in 1..Len(tasks)}

\* existingTasks.unshift(x)
Unshift(tasks, x) == <<x>> \o tasks

---------------------------------------------------------------------------
(* Resolver invocations.  A call record is one invocation of a resolver:   *)
(* pc is the await it is suspended at, tasks its local `tasks` array, out   *)
(* the outcome of its request to the remote store, mirror the tracker's     *)
(* answers to its status requests.                                          *)

Idle ==
  [op |-> "idle", pc |-> "idle", taskId |-> 0, tasks |-> <<>>, resp |-> <<>>,
   key |-> 0, res |-> "none", createResp |-> "none", commented |-> FALSE,
   wrote |-> FALSE, cont |-> "none", out |-> "none", mirror |-> <<>>,
   error |-> "none"]

\* A fresh invocation of resolver op with payload.taskId = id; cont names the
\* dashboard code that awaits it ("none": nobody reads the result).
NewCall(op, id, cont) == [Idle EXCEPT !.op = op, !.pc = "start", !.taskId = id, !.cont = cont]

At(c, op, pc) == calls[c].op = op /\ calls[c].pc = pc

\* return { success: ok, ... }
Result(call, ok) == [call EXCEPT !.pc = "done", !.res = IF ok THEN "ok" ELSE "fail"]

\* return { success: false, error: 'Task not found' }
NotFound(call) == [Result(call, FALSE) EXCEPT !.error = "Task not found"]

\* ---- storage variant: getTasks ----

MirrorOutcomes == {"fail", "To Do", "Done"}

Eligible(t) == t.status = "sent" /\ t.jiraKey # 0

\* Overlay with one failure failing the batch: no task is updated
Overlay_AllOrNothing(tasks, m) ==
  IF \E i \in 1..Len(tasks) : Eligible(tasks[i]) /\ m[i] = "fail"
  THEN tasks
  ELSE [i \in 1..Len(tasks) |->
          IF Eligible(tasks[i]) THEN [tasks[i] EXCEPT !.jiraStatus = m[i]] ELSE tasks[i]]

\* The Promise.all over tasks.map: m[i] is the tracker's answer for task i
\* ("fail": non-2xx or exception, the task is returned as it was).
Overlay(tasks, m) ==
  [i \in 1..Len(tasks) |->
     IF Eligible(tasks[i]) /\ m[i] # "fail"
     THEN [tasks[i] EXCEPT !.jiraStatus = m[i]]
     ELSE tasks[i]]

\* One status request is made for each sent task with a jiraKey, none ("none")
\* for the others.
MirrorAnswers(tasks) ==
  {m \in [1..Len(tasks) -> MirrorOutcomes \cup {"none"}] :
     \A i \in 1..Len(tasks) : (m[i] = "none") <=> ~Eligible(tasks[i])}

GetTasksRead(c) ==
  /\ At(c, "getTasks", "start")
  /\ \E m \in MirrorAnswers(store) :
       calls' = [calls EXCEPT ![c].tasks = Overlay(store, m), ![c].mirror = m,
                                 ![c].pc = "write"]
  /\ UNCHANGED <<store, remote, issues, bg, invoked, dashVars, wakeVars, extVars>>

GetTasksWrite(c) ==
  /\ At(c, "getTasks", "write")
  /\ store' = calls[c].tasks
  /\ calls' = [calls EXCEPT ![c] = Result(calls[c], TRUE)]
  /\ UNCHANGED <<remote, issues, bg, invoked, dashVars, wakeVars, extVars>>

\* ---- storage variant: addTask ----

\* `task-${Date.now()}`: an id no record and no invocation holds yet
UsedIds ==
  IdsOf(store) \cup {id \in TaskIds : remote[id].status # "absent"}
  \cup UNION {IdsOf(calls[c].tasks) : c \in DOMAIN calls}
  \cup {calls[c].taskId : c \in DOMAIN calls}

AddTaskRead(c, priority) ==
  /\ At(c, "addTask", "start")
  /\ \E id \in TaskIds \ UsedIds :
       calls' = [calls EXCEPT ![c].tasks =
                                Unshift(store, [NewTask(id) EXCEPT
                                                  !.priority = OrMedium(priority)]),
                              ![c].taskId = id, ![c].pc = "write"]
  /\ UNCHANGED <<store, remote, issues, bg, invoked, dashVars, wakeVars, extVars>>

AddTaskWrite(c) ==
  /\ At(c, "addTask", "write")
  /\ store' = calls[c].tasks
  /\ calls' = [calls EXCEPT ![c] = Result(calls[c], TRUE)]
  /\ UNCHANGED <<remote, issues, bg, invoked, dashVars, wakeVars, extVars>>

\* ---- storage variant: deleteTask ----

DeleteTaskRead(c) ==
  /\ At(c, "deleteTask", "start")
  /\ calls' = [calls EXCEPT ![c].tasks = FilterOut(store, calls[c].taskId),
                            ![c].pc = "write"]
  /\ UNCHANGED <<store, remote, issues, bg, invoked, dashVars, wakeVars, extVars>>

DeleteTaskWrite(c) ==
  /\ At(c, "deleteTask", "write")
  /\ store' = calls[c].tasks
  /\ calls' = [calls EXCEPT ![c] = Result(calls[c], TRUE)]
  /\ UNCHANGED <<remote, issues, bg, invoked, dashVars, wakeVars, extVars>>

\* ---- storage variant: declineTask ----

Declined(t) == [t EXCEPT !.status = "declined", !.declinedAt = TRUE]

\* declineTask without its findIndex test: the list is written back as read
DeclineTaskRead_NoTest(c) ==
  /\ At(c, "declineTask", "start")
  /\ LET i == FindIndex(store, calls[c].taskId) IN
       calls' = [calls EXCEPT ![c].tasks = IF i = 0 THEN store
                                           ELSE [store EXCEPT ![i] = Declined(@)],
                              ![c].pc = "write"]
  /\ UNCHANGED <<store, remote, issues, bg, invoked, dashVars, wakeVars, extVars>>

DeclineTaskRead(c) ==
  /\ At(c, "declineTask", "start")
  /\ LET i == FindIndex(store, calls[c].taskId) IN
       calls' = [calls EXCEPT ![c] =
                   IF i = 0 THEN NotFound(@)
                   ELSE [@ EXCEPT !.tasks = [store EXCEPT ![i] = Declined(@)],
                                  !.pc = "write"]]
  /\ UNCHANGED <<store, remote, issues, bg, invoked, dashVars, wakeVars, extVars>>

DeclineTaskWrite(c) ==
  /\ At(c, "declineTask", "write")
  /\ store' = calls[c].tasks
  /\ calls' = [calls EXCEPT ![c] = Result(calls[c], TRUE)]
  /\ UNCHANGED <<remote, issues, bg, invoked, dashVars, wakeVars, extVars>>

\* ---- storage variant: restoreTask ----

\* status set back to pending, declinedAt left on the record
Restored_KeepsDeclinedAt(t) == [t EXCEPT !.status = "pending"]

\* status = 'pending'; delete declinedAt
Restored(t) == [t EXCEPT !.status = "pending", !.declinedAt = FALSE]

RestoreTaskRead(c) ==
  /\ At(c, "restoreTask", "start")
  /\ LET i == FindIndex(store, calls[c].taskId) IN
       calls' = [calls EXCEPT ![c] =
                   IF i = 0 THEN NotFound(@)
                   ELSE [@ EXCEPT !.tasks = [store EXCEPT ![i] = Restored(@)],
                                  !.pc = "write"]]
  /\ UNCHANGED <<store, remote, issues, bg, invoked, dashVars, wakeVars, extVars>>

RestoreTaskWrite(c) ==
  /\ At(c, "restoreTask", "write")
  /\ store' = calls[c].tasks
  /\ calls' = [calls EXCEPT ![c] = Result(calls[c], TRUE)]
  /\ UNCHANGED <<remote, issues, bg, invoked, dashVars, wakeVars, extVars>>

\* ---- storage variant: clearTasks ----

ClearTasksWrite(c) ==
  /\ At(c, "clearTasks", "start")
  /\ store' = <<>>
  /\ calls' = [calls EXCEPT ![c] = Result(calls[c], TRUE)]
  /\ UNCHANGED <<remote, issues, bg, invoked, dashVars, wakeVars, extVars>>

\* ---- storage variant: sendToJira ----

\* tasks[taskIndex] after lines 510-515
Sent(t, key) == [t EXCEPT !.status = "sent", !.jiraKey = key, !.jiraStatus = "To Do"]

\* storage.get, findIndex, then the POST /rest/api/3/issue is issued
SendToJiraRead(c) ==
  /\ At(c, "sendToJira", "start")
  /\ calls' = [calls EXCEPT ![c] =
                 IF FindIndex(store, @.taskId) = 0 THEN NotFound(@)
                 ELSE [@ EXCEPT !.tasks = store, !.pc = "create"]]
  /\ UNCHANGED <<store, remote, issues, bg, invoked, dashVars, wakeVars, extVars>>

\* The tracker answers 2xx with a new key; the resolver goes on to its next
\* request (the storage variant's comment, the backend variant's mark-sent).
CreateOk(c, comments, next) ==
  /\ Len(issues) < MaxIssues
  /\ issues' = Append(issues, calls[c].taskId)
  /\ calls' = [calls EXCEPT ![c].key = Len(issues) + 1, ![c].createResp = "ok",
                            ![c].commented = comments, ![c].pc = next]

\* CreateRejected without the `if (!response.ok)` return: the resolver goes on
\* with an undefined key.
CreateRejected_NoCheck(c, comments, next) ==
  /\ issues' = issues
  /\ calls' = [calls EXCEPT ![c].createResp = "fail", ![c].commented = comments,
                            ![c].pc = next]

\* The tracker answers non-2xx: `if (!response.ok) return { success: false }`.
CreateRejected(c, comments, next) ==
  /\ issues' = issues
  /\ calls' = [calls EXCEPT ![c] = Result([@ EXCEPT !.createResp = "fail"], FALSE)]

\* requestJira or response.json() throws: the catch returns success false.
CreateThrows(c, comments, next) ==
  /\ issues' = issues
  /\ calls' = [calls EXCEPT ![c] = Result([@ EXCEPT !.createResp = "throw"], FALSE)]

SendToJiraCreate(c) ==
  /\ At(c, "sendToJira", "create")
  /\ \/ CreateOk(c, TRUE, "comment")
     \/ CreateRejected(c, TRUE, "comment")
     \/ CreateThrows(c, TRUE, "comment")
  /\ UNCHANGED <<store, remote, bg, invoked, dashVars, wakeVars, extVars>>

\* The comment request resolves (its status is not looked at): the record is
\* updated in the local array and storage.set is issued; or it throws.
SendToJiraComment(c) ==
  /\ At(c, "sendToJira", "comment")
  /\ \/ LET i == FindIndex(calls[c].tasks, calls[c].taskId) IN
          calls' = [calls EXCEPT ![c].tasks = [@ EXCEPT ![i] = Sent(@, calls[c].key)],
                                 ![c].pc = "write"]
     \/ calls' = [calls EXCEPT ![c] = Result(@, FALSE)]
  /\ UNCHANGED <<store, remote, issues, bg, invoked, dashVars, wakeVars, extVars>>

SendToJiraWrite(c) ==
  /\ At(c, "sendToJira", "write")
  /\ store' = calls[c].tasks
  /\ calls' = [calls EXCEPT ![c] = Result([@ EXCEPT !.wrote = TRUE], TRUE)]
  /\ UNCHANGED <<remote, issues, bg, invoked, dashVars, wakeVars, extVars>>

\* ---- storage variant: syncFromBackend ----

PendingRemote == {id \in TaskIds : remote[id].status = "pending"}

\* What GET /tasks?status=pending may answer: a list of pending tasks
Responses == UNION {[1..n -> PendingRemote] : n \in 0..MaxResp}

\* lines 634-654: existingIds is computed once, before the loop
RECURSIVE MergeFrom(_, _, _, _)
MergeFrom(existing, existingIds, resp, i) ==
  IF i > Len(resp) THEN existing
  ELSE MergeFrom(IF resp[i] \notin existingIds
                 THEN Unshift(existing, NewTask(resp[i]))
                 ELSE existing,
                 existingIds, resp, i + 1)

Merge(existing, resp) == MergeFrom(existing, IdsOf(existing), resp, 1)

SyncFromBackendFetch(c) ==
  /\ At(c, "syncFromBackend", "start")
  /\ \/ \E r \in Responses :
          calls' = [calls EXCEPT ![c].resp = r, ![c].pc = "read"]
     \/ calls' = [calls EXCEPT ![c] = Result(@, FALSE)]   \* non-2xx, or fetch throws
  /\ UNCHANGED <<store, remote, issues, bg, invoked, dashVars, wakeVars, extVars>>

SyncFromBackendRead(c) ==
  /\ At(c, "syncFromBackend", "read")
  /\ calls' = [calls EXCEPT ![c].tasks = Merge(store, calls[c].resp), ![c].pc = "write"]
  /\ UNCHANGED <<store, remote, issues, bg, invoked, dashVars, wakeVars, extVars>>

SyncFromBackendWrite(c) ==
  /\ At(c, "syncFromBackend", "write")
  /\ store' = calls[c].tasks
  /\ calls' = [calls EXCEPT ![c] = Result(calls[c], TRUE)]
  /\ UNCHANGED <<remote, issues, bg, invoked, dashVars, wakeVars, extVars>>

\* ---- backend variant: sendToJira (op "sendToJiraB") ----

\* GET /tasks/{id}: 2xx with the task, or non-2xx / a thrown fetch
BackendSendFetch(c) ==
  /\ At(c, "sendToJiraB", "start")
  /\ \/ /\ remote[calls[c].taskId].status # "absent"
        /\ calls' = [calls EXCEPT ![c].pc = "create"]
     \/ calls' = [calls EXCEPT ![c] = Result(@, FALSE)]
  /\ UNCHANGED <<store, remote, issues, bg, invoked, dashVars, wakeVars, extVars>>

BackendSendCreate(c) ==
  /\ At(c, "sendToJiraB", "create")
  /\ \/ CreateOk(c, FALSE, "marksent")
     \/ CreateRejected(c, FALSE, "marksent")
     \/ CreateThrows(c, FALSE, "marksent")
  /\ UNCHANGED <<store, remote, bg, invoked, dashVars, wakeVars, extVars>>

\* POST /tasks/{id}/mark-sent answers 2xx: the remote store records the key
MarkSentOk(c) ==
  /\ remote[calls[c].taskId].status # "absent"
  /\ remote' = [remote EXCEPT ![calls[c].taskId] =
                  [status |-> "sent", jiraKey |-> calls[c].key]]
  /\ calls' = [calls EXCEPT ![c] = Result([@ EXCEPT !.wrote = TRUE], TRUE)]

\* ... answers non-2xx: the response is not looked at, success true is returned
MarkSentRejected(c) ==
  /\ remote' = remote
  /\ calls' = [calls EXCEPT ![c] = Result(@, TRUE)]

\* ... throws: the catch returns success false
MarkSentThrows(c) ==
  /\ remote' = remote
  /\ calls' = [calls EXCEPT ![c] = Result(@, FALSE)]

BackendSendMarkSent(c) ==
  /\ At(c, "sendToJiraB", "marksent")
  /\ MarkSentOk(c) \/ MarkSentRejected(c) \/ MarkSentThrows(c)
  /\ UNCHANGED <<store, issues, bg, invoked, dashVars, wakeVars, extVars>>

\* ---- backend variant: getTasks (op "getTasksB") and syncTasks ----

\* The remote store's record of task id, as GET /api/tasks lists it
RemoteTask(id) ==
  [NewTask(id) EXCEPT !.status = remote[id].status, !.jiraKey = remote[id].jiraKey]

RECURSIVE RemoteFrom(_)
RemoteFrom(id) ==
  IF id > NumTasks THEN <<>>
  ELSE (IF remote[id].status = "absent" THEN <<>> ELSE <<RemoteTask(id)>>)
       \o RemoteFrom(id + 1)

RemoteTasks == RemoteFrom(1)

\* The outcomes of fetch(`${backendUrl}/api/tasks`) followed by response.json():
\* 2xx with the list, non-2xx, a rejected fetch, 2xx with a body that does not parse.
StoreOutcomes == {"2xx", "non2xx", "neterr", "badbody"}

\* getTasks (backend variant) without its try/catch
getTasksBackend_NoCatch(o, listed) ==
  IF o = "neterr" THEN [kind |-> "throw", tasks |-> <<>>]
  ELSE IF o = "non2xx" THEN [kind |-> "return", tasks |-> <<>>]
  ELSE IF o = "badbody" THEN [kind |-> "throw", tasks |-> <<>>]
  ELSE [kind |-> "return", tasks |-> listed]

\* lines 26-37: what getTasks (backend variant) does for outcome o
getTasksBackend(o, listed) ==
  IF o = "neterr" THEN [kind |-> "return", tasks |-> <<>>]
  ELSE IF o = "non2xx" THEN [kind |-> "return", tasks |-> <<>>]
  ELSE IF o = "badbody" THEN [kind |-> "return", tasks |-> <<>>]
  ELSE [kind |-> "return", tasks |-> listed]

GetTasksBackend(c) ==
  /\ At(c, "getTasksB", "start")
  /\ \E o \in StoreOutcomes :
       LET r == getTasksBackend(o, RemoteTasks)
       IN  calls' = [calls EXCEPT ![c].pc = "done", ![c].out = o, ![c].tasks = r.tasks,
                                 ![c].res = IF r.kind = "return" THEN "ok" ELSE "threw"]
  /\ UNCHANGED <<store, remote, issues, bg, invoked, dashVars, wakeVars, extVars>>

\* syncTasks, lines 44-49: the fetch and response.json()
SyncTasksFetch(c) ==
  /\ At(c, "syncTasks", "start")
  /\ \E o \in StoreOutcomes :
       calls' = [calls EXCEPT ![c] =
                   IF o = "2xx"
                   THEN [@ EXCEPT !.out = o, !.tasks = RemoteTasks, !.pc = "mirror"]
                   ELSE Result([@ EXCEPT !.out = o], FALSE)]
  /\ UNCHANGED <<store, remote, issues, bg, invoked, dashVars, wakeVars, extVars>>

\* syncTasks, lines 52-67: `for (const task of tasks)` from index i on, m[i] the
\* tracker's answer for task i
RECURSIVE MirrorLoop(_, _, _)
MirrorLoop(tasks, m, i) ==
  IF i > Len(tasks) THEN tasks
  ELSE MirrorLoop(IF Eligible(tasks[i]) /\ m[i] # "fail"
                  THEN [tasks EXCEPT ![i].jiraStatus = m[i]]
                  ELSE tasks,
                  m, i + 1)

SyncTasksMirror(c) ==
  /\ At(c, "syncTasks", "mirror")
  /\ \E m \in MirrorAnswers(calls[c].tasks) :
       calls' = [calls EXCEPT ![c] =
                   Result([@ EXCEPT !.tasks = MirrorLoop(calls[c].tasks, m, 1),
                                    !.mirror = m], TRUE)]
  /\ UNCHANGED <<store, remote, issues, bg, invoked, dashVars, wakeVars, extVars>>

\* ---- backend variant: deleteTask (op "deleteTaskB") and deleteFromBackend ----

\* The answers to DELETE /api/tasks/{id}: 2xx when the task was there and is
\* removed, 404 when it is not there, another status or a rejected fetch.
DeleteOutcomes == {"2xx", "404", "5xx", "neterr"}

\* success: response.ok only
DeleteSuccess_OkOnly(o) == o = "2xx"

\* lines 235-243 and 689-697: success: response.ok || response.status === 404,
\* the catch returns success false
DeleteSuccess(o) == IF o = "neterr" THEN FALSE ELSE (o = "2xx" \/ o = "404")

DeleteOps == {"deleteTaskB", "deleteFromBackend"}

DeleteBackend(c) ==
  /\ calls[c].op \in DeleteOps
  /\ calls[c].pc = "start"
  /\ \E o \in DeleteOutcomes :
       /\ o = "2xx" => remote[calls[c].taskId].status # "absent"
       /\ o = "404" => remote[calls[c].taskId].status = "absent"
       /\ remote' = IF o = "2xx"
                    THEN [remote EXCEPT ![calls[c].taskId] = [status |-> "absent", jiraKey |-> 0]]
                    ELSE remote
       /\ calls' = [calls EXCEPT ![c] = Result([@ EXCEPT !.out = o], DeleteSuccess(o))]
  /\ UNCHANGED <<store, issues, bg, invoked, dashVars, wakeVars, extVars>>

\* ---- fire-and-forget requests to the remote store ----

\* markSentOnBackend: POST /tasks/{id}/send; deleteFromBackend: DELETE /tasks/{id}.
\* Each may also fail, which changes nothing.
BackendRequest(r) ==
  /\ r \in bg
  /\ bg' = bg \ {r}
  /\ \/ /\ r.op = "markSentOnBackend"
        /\ remote[r.taskId].status # "absent"
        /\ remote' = [remote EXCEPT ![r.taskId].status = "sent"]
     \/ /\ r.op = "deleteFromBackend"
        /\ remote' = [remote EXCEPT ![r.taskId] = [status |-> "absent", jiraKey |-> 0]]
     \/ remote' = remote
  /\ UNCHANGED <<store, issues, calls, invoked, dashVars, wakeVars, extVars>>

\* The extension's POST /tasks stores a new pending task in the remote store.
SubmitTask(id) ==
  /\ remote[id].status = "absent"
  /\ id \notin UsedIds
  /\ remote' = [remote EXCEPT ![id].status = "pending"]
  /\ UNCHANGED <<store, issues, calls, bg, invoked, dashVars, wakeVars, extVars>>

---------------------------------------------------------------------------
(* wakeUpBackend and checkBackendHealth (popup), timed in seconds *)

WAKEUP_CHECK_INTERVAL == 3    \* seconds (3000 ms)
WAKEUP_TIMEOUT == 10          \* seconds (10000 ms)

\* The calls of checkBackendHealth: the first quick check, the immediate check
\* made after setInterval, and the check of interval tick n (attempt n).
FirstProbe == 0
ImmediateProbe == 1
IntervalProbe(n) == n + 1
Probes == 0..(MaxAttempt + 1)

\* The outcomes of fetch(`${BACKEND_URL}/health`, { signal }): a response that
\* is OK or not, a rejection for a network error, a rejection for the abort.
HealthOutcomes == {"2xx", "non2xx", "neterr", "abort"}

Fetch(outcome) ==
  IF outcome \in {"neterr", "abort"}
  THEN [thrown |-> TRUE, ok |-> FALSE]
  ELSE [thrown |-> FALSE, ok |-> (outcome = "2xx")]

NoResult == [kind |-> "none", value |-> FALSE]

\* checkBackendHealth without its catch block: a rejected fetch propagates
checkBackendHealth_NoCatch(outcome) ==
  LET response == Fetch(outcome)
  IN  IF response.thrown
      THEN [kind |-> "throw", value |-> FALSE]
      ELSE [kind |-> "return", value |-> response.ok]

\* lines 15-24: try { ... return response.ok } catch (e) { ... return false }
checkBackendHealth(outcome) ==
  LET response == Fetch(outcome)
  IN  IF response.thrown
      THEN [kind |-> "return", value |-> FALSE]
      ELSE [kind |-> "return", value |-> response.ok]

Unstarted == [st |-> "unstarted", age |-> 0]
Flying == [st |-> "flying", age |-> 0]

\* The call whose request ended with outcome o
Checked(o) == [out |-> o, ret |-> checkBackendHealth(o)]

\* The probe after its request ended with outcome o: "ok" when `awake`, the
\* value checkBackendHealth returned, is true
Landed(o) ==
  LET ret == checkBackendHealth(o)
  IN  [st |-> IF ret.kind = "return" /\ ret.value THEN "ok" ELSE "fail", age |-> 0]

\* The request of probe p can end with outcome o now: a 200 needs the backend
\* up, the abort happens when the request is WAKEUP_TIMEOUT old.
MayEnd(p, o) ==
  /\ probe[p].st = "flying"
  /\ o = "2xx" => backendUp
  /\ o = "abort" => probe[p].age = WAKEUP_TIMEOUT

InFlight == {p \in Probes : probe[p].st = "flying"}
Started == {p \in Probes : probe[p].st # "unstarted"}
Succeeded == {p \in Probes : probe[p].st = "ok"}

---------------------------------------------------------------------------
(* The extension's service worker: the context-menu capture *)

Clicks == 1..MaxCaptures

\* What chrome.tabs.sendMessage(tab.id, { action: 'ping' }) gives: { pong: true },
\* a reply without pong, no reply (undefined), or a rejection.
PingReplies == {"pong", "nopong", "absent", "throws"}

\* contentScriptReady taken from the presence of a reply alone
ContentScriptReady_AnyReply(reply) == reply \notin {"absent", "throws"}

\* lines 26-32: contentScriptReady = response && response.pong, false in the catch
ContentScriptReady(reply) ==
  IF reply = "throws" THEN FALSE
  ELSE reply # "absent" /\ reply = "pong"

\* ---- detectSource ----

\* A URL is a sequence of pieces; a piece is one of the fragments detectSource
\* looks for, or another text, written in lower or in upper case.  The empty
\* sequence is the URL that is absent (undefined or '').
EmailFragments == {"mail.google.com", "outlook.", "/mail"}
ChatFragments == {"slack.com", "teams.microsoft.com", "discord.com"}
JiraFragments == {"atlassian.net", "jira"}
Pieces ==
  [text : EmailFragments \cup ChatFragments \cup JiraFragments \cup {"example.org"},
   upper : BOOLEAN]
Urls == UNION {[1..n -> Pieces] : n \in 0..MaxUrlLen}

\* url.toLowerCase()
toLowerCase(url) == [i \in 1..Len(url) |-> [url[i] EXCEPT !.upper = FALSE]]

\* lowerUrl.includes(text), text being written in lower case in the source
includes(url, text) == \E i \in 1..Len(url) : url[i] = [text |-> text, upper |-> FALSE]

\* detectSource matching the URL as it is written
detectSource_CaseSensitive(url) ==
  IF url = <<>> THEN "web"
  ELSE IF \E f \in EmailFragments : includes(url, f) THEN "email"
  ELSE IF \E f \in ChatFragments : includes(url, f) THEN "chat"
  ELSE IF \E f \in JiraFragments : includes(url, f) THEN "jira"
  ELSE "web"

\* lines 61-84
detectSource(url) ==
  IF url = <<>> THEN "web"
  ELSE LET lowerUrl == toLowerCase(url) IN
    IF \/ includes(lowerUrl, "mail.google.com")
       \/ includes(lowerUrl, "outlook.")
       \/ includes(lowerUrl, "/mail") THEN "email"
    ELSE IF \/ includes(lowerUrl, "slack.com")
            \/ includes(lowerUrl, "teams.microsoft.com")
            \/ includes(lowerUrl, "discord.com") THEN "chat"
    ELSE IF \/ includes(lowerUrl, "atlassian.net")
            \/ includes(lowerUrl, "jira") THEN "jira"
    ELSE "web"

\* A click not made yet. The draft (taskData) of click k is k itself.
NoClick ==
  [pc |-> "idle", reply |-> "none", pings |-> 0, modals |-> 0, wrote |-> FALSE,
   windows |-> 0, url |-> <<>>, source |-> "none",
   posted |-> [given |-> "none", priority |-> "none"]]

InitCapture ==
  /\ captureTask = 0
  /\ cap = [k \in Clicks |-> NoClick]
  /\ surface = [k \in Clicks |-> [st |-> "none", draft |-> 0]]

\* lines 13-28: the listener runs for a click on a tab showing url; with
\* menuItemId 'donotmiss-capture' and a selection it builds taskData (its
\* source is detectSource(tab.url)) and sends the ping.
ContextMenuClick(k, url) ==
  /\ cap[k].pc = "idle"
  /\ \A j \in 1..(k - 1) : cap[j].pc # "idle"
  /\ \E selection \in BOOLEAN :
       cap' = [cap EXCEPT ![k] =
                 IF selection
                 THEN [@ EXCEPT !.pc = "pinging", !.pings = @ + 1, !.url = url,
                                !.source = detectSource(url)]
                 ELSE [@ EXCEPT !.pc = "ignored"]]
  /\ UNCHANGED <<captureTask, surface, popVars, forgeVars, calls, dashVars, wakeVars>>

\* lines 28-45: the ping is answered; showCaptureModal is sent, or
\* chrome.storage.local.set({ captureTask }) is issued
PingAnswered(k) ==
  /\ cap[k].pc = "pinging"
  /\ \E reply \in PingReplies :
       cap' = [cap EXCEPT ![k] =
                 IF ContentScriptReady(reply)
                 THEN [@ EXCEPT !.pc = "done", !.reply = reply, !.modals = @ + 1]
                 ELSE [@ EXCEPT !.pc = "storing", !.reply = reply]]
  /\ UNCHANGED <<captureTask, surface, popVars, forgeVars, calls, dashVars, wakeVars>>

\* lines 45-55: the set is done, then chrome.windows.create opens the window
StoreDraft(k) ==
  /\ cap[k].pc = "storing"
  /\ captureTask' = k
  /\ cap' = [cap EXCEPT ![k] = [@ EXCEPT !.pc = "done", !.wrote = TRUE, !.windows = @ + 1]]
  /\ surface' = [surface EXCEPT ![k] = [st |-> "open", draft |-> 0]]
  /\ UNCHANGED <<popVars, forgeVars, calls, dashVars, wakeVars>>

\* lines 87-118: a submitTask message arrives from the page that was shown
\* the capture modal for click k, its task carrying `priority`;
\* submitTaskToBackend builds the payload it posts
SubmitTaskMessage(k, priority) ==
  /\ cap[k].pc = "done"
  /\ cap[k].modals = 1
  /\ cap[k].posted.given = "none"
  /\ cap' = [cap EXCEPT ![k].posted = [given |-> priority,
                                       priority |-> OrMedium(priority)]]
  /\ UNCHANGED <<captureTask, surface, popVars, forgeVars, calls, dashVars, wakeVars>>

\* The standalone confirmation surface (popup/capture.html) reads the
\* captureTask key on start-up.
SurfaceReads(k) ==
  /\ surface[k].st = "open"
  /\ surface' = [surface EXCEPT ![k] = [st |-> "read", draft |-> captureTask]]
  /\ UNCHANGED <<captureTask, cap, popVars, forgeVars, calls, dashVars, wakeVars>>

---------------------------------------------------------------------------
(* The popup: loadTasks and handleTaskAction *)

Listener == 0                 \* the DOMContentLoaded listener
Handlers == 1..MaxActions     \* handleTaskAction invocations

\* ---- texts and the generated title ----

\* A text is written as its runs of equal characters: "x" stands for any
\* character that is not white space, " " for white space; neighbouring runs
\* differ in their character.
TITLE_MAX == 50
RunLengths == {1, 15, TITLE_MAX - 1, TITLE_MAX}
Texts ==
  {t \in UNION {[1..n -> [ch : {"x", " "}, n : RunLengths]] : n \in 0..MaxRuns} :
     \A i \in 1..(Len(t) - 1) : t[i].ch # t[i + 1].ch}

ShortText == <<[ch |-> "x", n |-> 1]>>

\* text.length
RECURSIVE length(_)
length(t) == IF t = <<>> THEN 0 ELSE Head(t).n + length(Tail(t))

\* text.substring(0, m)
RECURSIVE substring(_, _)
substring(t, m) ==
  IF t = <<>> \/ m = 0 THEN <<>>
  ELSE IF Head(t).n <= m THEN <<Head(t)>> \o substring(Tail(t), m - Head(t).n)
  ELSE <<[Head(t) EXCEPT !.n = m]>>

\* text.trim()
trim(t) ==
  LET a == IF t # <<>> /\ Head(t).ch = " " THEN Tail(t) ELSE t
  IN  IF a # <<>> /\ a[Len(a)].ch = " " THEN SubSeq(a, 1, Len(a) - 1) ELSE a

NoTitle == [text |-> <<>>, ellipsis |-> FALSE]

\* part_000 lines 180-182
Title(text) ==
  IF length(text) > TITLE_MAX
    THEN [text |-> trim(substring(text, TITLE_MAX)), ellipsis |-> TRUE]
    ELSE [text |-> trim(text), ellipsis |-> FALSE]

\* pendingTasks as earlier sessions left it: task 1 has a local id, task 2 has
\* an id of the form 'task-...' naming task 2 of the remote store
LocalTask(k) ==
  [id |-> k, origin |-> "local", rid |-> IF k = 2 THEN 2 ELSE 0, text |-> ShortText]
LocalTasks == <<LocalTask(1), LocalTask(2)>>

\* tasks[index] of an index outside the list: undefined
NoTask == [id |-> 0, origin |-> "none", rid |-> 0, text |-> <<>>]

\* part_000 lines 108-114: a task of the backend's answer as loadTasks maps it
BackendTask(id) == [id |-> id, origin |-> "backend", rid |-> id, text |-> ShortText]

RECURSIVE BackendFrom(_)
BackendFrom(id) ==
  IF id > NumTasks THEN <<>>
  ELSE IF remote[id].status = "pending" THEN <<BackendTask(id)>> \o BackendFrom(id + 1)
  ELSE BackendFrom(id + 1)

\* GET /tasks?status=pending answered OK
BackendTasks == BackendFrom(1)

\* tasks.splice(index, 1); indices here are data-index + 1
Splice(tasks, index) ==
  [i \in 1..(Len(tasks) - (IF index <= Len(tasks) THEN 1 ELSE 0)) |->
     IF i < index THEN tasks[i] ELSE tasks[i + 1]]

\* ---- background.js: submitTaskToBackend and the submitTask message ----

\* What POST /tasks may do: reject, or answer with a status and a body that is
\* a JSON object with an error field, a JSON object without one, JSON null, or
\* not JSON at all
SubmitOutcomes ==
  {[status |-> "none", body |-> "none"]} \cup
  [status : {"2xx", "non2xx"}, body : {"error", "plain", "null", "notjson"}]

NoSubmit == [status |-> "unsent", body |-> "none"]

Returns == [kind |-> "return", message |-> "none"]
Throws(m) == [kind |-> "throw", message |-> m]

\* lines 121-140: fetch, then response.json(), then the response.ok test, then
\* the fields of the result are read
submitTaskToBackend(o) ==
  IF o.status = "none" THEN Throws("network")
  ELSE IF o.body = "notjson" THEN Throws("syntax")
  ELSE IF o.status # "2xx"
    THEN (IF o.body = "null" THEN Throws("type")
          ELSE IF o.body = "error" THEN Throws("server")
          ELSE Throws("generic"))
  ELSE IF o.body = "null" THEN Throws("type")
  ELSE Returns

NoResponse == [success |-> FALSE, error |-> "unanswered"]

\* lines 87-94: what the listener passes to sendResponse
OnMessage(o) ==
  IF submitTaskToBackend(o).kind = "return"
    THEN [success |-> TRUE, error |-> "none"]
    ELSE [success |-> FALSE, error |-> submitTaskToBackend(o).message]

\* The server stores the task of a POST it answers 2xx: the smallest free id
FreeIds == {id \in TaskIds : remote[id].status = "absent"}
Stored(o) ==
  IF o.status = "2xx" /\ FreeIds # {}
    THEN [remote EXCEPT ![CHOOSE id \in FreeIds : \A j \in FreeIds : id <= j] =
                          [status |-> "pending", jiraKey |-> 0]]
    ELSE remote

\* ---- popup.js ----

HIdle == [pc |-> "idle", action |-> "none", index |-> 0, tasks |-> <<>>,
          task |-> NoTask, title |-> NoTitle, sub |-> NoSubmit, resp |-> NoResponse,
          fetched |-> <<>>, card |-> NoTask]

NotLoaded == [loaded |-> FALSE, tasks |-> <<>>, disabled |-> {}]

InitPopup ==
  /\ pendingTasks = LocalTasks
  /\ popView = NotLoaded
  /\ hta = [h \in {Listener} \cup Handlers |-> HIdle]

InitExt == InitCapture /\ InitPopup

\* lines 130-157: the list is rendered (an empty list shows the empty state)
Render(tasks) == [loaded |-> TRUE, tasks |-> tasks, disabled |-> {}]

\* lines 90-92: wakeUpBackend() has resolved; loadTasks starts its fetch
LoadAfterWake ==
  /\ hta[Listener].pc = "idle"
  /\ continued = 1
  /\ hta' = [hta EXCEPT ![Listener].pc = "fetch"]
  /\ UNCHANGED <<pendingTasks, popView, capVars, forgeVars, calls, dashVars, wakeVars>>

\* lines 104-118: the fetch of the pending tasks ends: an OK answer lists the
\* pending tasks of the remote store; a failure leaves tasks empty.  lines
\* 121-124: a non-empty list is rendered at once, an empty one makes loadTasks
\* read pendingTasks.
LoadFetched(h) ==
  /\ hta[h].pc = "fetch"
  /\ \E ok \in {b \in BOOLEAN : b => backendUp} :
       LET tasks == IF ok THEN BackendTasks ELSE <<>> IN
         IF tasks # <<>>
           THEN /\ popView' = Render(tasks)
                /\ hta' = [hta EXCEPT ![h].pc = "done", ![h].fetched = tasks]
           ELSE /\ popView' = popView
                /\ hta' = [hta EXCEPT ![h].pc = "local"]
  /\ UNCHANGED <<pendingTasks, capVars, forgeVars, calls, dashVars, wakeVars>>

\* lines 122-157: pendingTasks is read and rendered
LoadLocal(h) ==
  /\ hta[h].pc = "local"
  /\ popView' = Render(pendingTasks)
  /\ hta' = [hta EXCEPT ![h].pc = "done"]
  /\ UNCHANGED <<pendingTasks, capVars, forgeVars, calls, dashVars, wakeVars>>

\* lines 161-170: a click on a button of card `index` starts handleTaskAction,
\* which reads pendingTasks; card (line 167) is the card of the clicked button,
\* recorded here as the task it shows
ClickTask(h, action, index) ==
  /\ hta[h].pc = "idle"
  /\ \A g \in Handlers : g < h => hta[g].pc # "idle"
  /\ popView.loaded
  /\ index \in 1..Len(popView.tasks)
  /\ ~(action = "add" /\ index \in popView.disabled)
  /\ hta' = [hta EXCEPT ![h] = [HIdle EXCEPT !.pc = "get", !.action = action,
                                              !.index = index,
                                              !.card = popView.tasks[index]]]
  /\ UNCHANGED <<pendingTasks, popView, capVars, forgeVars, calls, dashVars, wakeVars>>

\* lines 170-197 and 213-214: pendingTasks has been read.  'add' disables the
\* button and sends submitTask (task.text of an undefined task throws);
\* 'dismiss' starts the 200 ms animation.
HandlerReads(h) ==
  /\ hta[h].pc = "get"
  /\ LET tasks == pendingTasks
         index == hta[h].index
         task == IF index <= Len(tasks) THEN tasks[index] ELSE NoTask
     IN /\ hta' = [hta EXCEPT ![h].tasks = tasks, ![h].task = task,
                              ![h].title = IF hta[h].action = "add" /\ task # NoTask
                                           THEN Title(task.text) ELSE NoTitle,
                              ![h].pc = IF hta[h].action = "dismiss" THEN "animate"
                                        ELSE IF task = NoTask THEN "threw"
                                        ELSE "submit"]
        /\ popView' = IF hta[h].action = "add"
                        THEN [popView EXCEPT !.disabled = @ \cup {index}]
                        ELSE popView
  /\ UNCHANGED <<pendingTasks, capVars, forgeVars, calls, dashVars, wakeVars>>

\* The write of line 228: pendingTasks := the list read at line 170 without
\* the element at index
Removed(h) == Splice(hta[h].tasks, hta[h].index)

\* The listener without its .catch: a rejected submitTaskToBackend is never
\* answered
SubmitAnswered_NoCatch(h) ==
  /\ hta[h].pc = "submit"
  /\ \E o \in SubmitOutcomes :
       /\ o.status = "2xx" => backendUp
       /\ submitTaskToBackend(o).kind = "return"
       /\ remote' = Stored(o)
       /\ hta' = [hta EXCEPT ![h].sub = o, ![h].resp = OnMessage(o), ![h].pc = "feedback"]
  /\ UNCHANGED <<pendingTasks, popView, capVars, store, issues, bg, invoked,
                 calls, dashVars, wakeVars>>

\* lines 185-210 and 227-228: the background answers submitTask.  On success
\* the handler waits 500 ms; otherwise it goes straight on to lines 227-228.
SubmitAnswered(h) ==
  /\ hta[h].pc = "submit"
  /\ \E o \in SubmitOutcomes :
       /\ o.status = "2xx" => backendUp
       /\ remote' = Stored(o)
       /\ hta' = [hta EXCEPT ![h].sub = o, ![h].resp = OnMessage(o),
                             ![h].pc = IF OnMessage(o).success THEN "feedback"
                                       ELSE "set"]
  /\ UNCHANGED <<pendingTasks, popView, capVars, store, issues, bg, invoked,
                 calls, dashVars, wakeVars>>

\* line 209: the 500 ms have passed; lines 227-228
FeedbackShown(h) ==
  /\ hta[h].pc = "feedback"
  /\ hta' = [hta EXCEPT ![h].pc = "set"]
  /\ UNCHANGED <<pendingTasks, popView, capVars, forgeVars, calls, dashVars, wakeVars>>

\* lines 214-223: the 200 ms have passed; a task with a backend id is deleted
\* from the backend first
Animated(h) ==
  /\ hta[h].pc = "animate"
  /\ hta' = [hta EXCEPT ![h].pc = IF hta[h].task.rid # 0 THEN "delete" ELSE "set"]
  /\ UNCHANGED <<pendingTasks, popView, capVars, forgeVars, calls, dashVars, wakeVars>>

\* DeleteAnswered with a failed request ending the handler
DeleteAnswered_FailureSurfaces(h) ==
  /\ hta[h].pc = "delete"
  /\ \E ok \in {b \in BOOLEAN : b => backendUp} :
       /\ remote' = IF ok THEN [remote EXCEPT ![hta[h].task.rid] =
                                      [status |-> "absent", jiraKey |-> 0]]
                    ELSE remote
       /\ hta' = [hta EXCEPT ![h].pc = IF ok THEN "set" ELSE "threw"]
  /\ UNCHANGED <<pendingTasks, popView, capVars, store, issues, bg, invoked,
                 calls, dashVars, wakeVars>>

\* lines 218-222: DELETE /tasks/<id> ends; its outcome is not looked at
DeleteAnswered(h) ==
  /\ hta[h].pc = "delete"
  /\ \E ok \in {b \in BOOLEAN : b => backendUp} :
       remote' = IF ok THEN [remote EXCEPT ![hta[h].task.rid] =
                                     [status |-> "absent", jiraKey |-> 0]]
                 ELSE remote
  /\ hta' = [hta EXCEPT ![h].pc = "set"]
  /\ UNCHANGED <<pendingTasks, popView, capVars, store, issues, bg, invoked,
                 calls, dashVars, wakeVars>>

\* lines 228-231: pendingTasks is written; loadTasks starts its fetch
HandlerWrites(h) ==
  /\ hta[h].pc = "set"
  /\ pendingTasks' = Removed(h)
  /\ hta' = [hta EXCEPT ![h].pc = "fetch"]
  /\ UNCHANGED <<popView, capVars, forgeVars, calls, dashVars, wakeVars>>

---------------------------------------------------------------------------
(* Spec: the resolvers invoked in any order *)

StorageOps == {"getTasks", "addTask", "deleteTask", "declineTask", "restoreTask",
               "sendToJira", "clearTasks", "syncFromBackend"}
TaskOps == {"deleteTask", "declineTask", "restoreTask", "sendToJira", "sendToJiraB"}

FirstIdle(c) == calls[c].op = "idle" /\ \A d \in 1..(c - 1) : calls[d].op # "idle"

Invoke(c) ==
  /\ FirstIdle(c)
  /\ invoked < MaxOps
  /\ invoked' = invoked + 1
  /\ \E op \in StorageOps \cup {"sendToJiraB"} :
       \E id \in IF op \in TaskOps THEN TaskIds ELSE {0} :
         calls' = [calls EXCEPT ![c] = NewCall(op, id, "none")]
  /\ UNCHANGED <<store, remote, issues, bg, dashVars, wakeVars, extVars>>

\* The invoker receives the resolver's result.
Return(c) ==
  /\ calls[c].pc = "done"
  /\ calls' = [calls EXCEPT ![c] = Idle]
  /\ UNCHANGED <<store, remote, issues, bg, invoked, dashVars, wakeVars, extVars>>

StorageStep(c) ==
  \/ GetTasksRead(c) \/ GetTasksWrite(c)
  \/ DeleteTaskRead(c) \/ DeleteTaskWrite(c)
  \/ DeclineTaskRead(c) \/ DeclineTaskWrite(c)
  \/ RestoreTaskRead(c) \/ RestoreTaskWrite(c)
  \/ ClearTasksWrite(c)
  \/ SendToJiraRead(c) \/ SendToJiraCreate(c) \/ SendToJiraComment(c) \/ SendToJiraWrite(c)
  \/ SyncFromBackendFetch(c) \/ SyncFromBackendRead(c) \/ SyncFromBackendWrite(c)

BackendVariantStep(c) ==
  BackendSendFetch(c) \/ BackendSendCreate(c) \/ BackendSendMarkSent(c)

InitForge ==
  /\ store = <<>>
  /\ remote = [id \in TaskIds |-> [status |-> "absent", jiraKey |-> 0]]
  /\ issues = <<>>
  /\ bg = {}
  /\ invoked = 0

InitDash ==
  /\ uiTasks = <<>>
  /\ uiLoading = TRUE
  /\ filter = "all"
  /\ showAssignModal = 0
  /\ actionLoading = [id \in TaskIds |-> "null"]
  /\ syncing = FALSE

\* The popup as it is opened: the page's markup is taken to start with the
\* wake-up screen hidden and the main content displayed, which lines 41-43
\* ("show wake-up screen") presuppose.
InitWake ==
  /\ wpc = "idle"
  /\ probe = [p \in Probes |-> Unstarted]
  /\ lastCheck = [out |-> "none", ret |-> NoResult]
  /\ timerActive = FALSE
  /\ timerLeft = 0
  /\ attempt = 0
  /\ wakeupScreen = "none"
  /\ mainContent = "block"
  /\ resolveCalls = 0
  /\ settled = "pending"
  /\ continued = 0
  /\ backendUp = FALSE

Init ==
  /\ InitForge
  /\ calls = [c \in Slots |-> Idle]
  /\ InitDash
  /\ InitWake
  /\ InitExt

Next ==
  \/ \E c \in Slots : Invoke(c)
  \/ \E c \in Slots : StorageStep(c)
  \/ \E c \in Slots : AddTaskRead(c, "absent") \/ AddTaskWrite(c)
  \/ \E c \in Slots : BackendVariantStep(c)
  \/ \E c \in Slots : Return(c)
  \/ \E id \in TaskIds : SubmitTask(id)

Spec == Init /\ [][Next]_vars

---------------------------------------------------------------------------
(* SpecStores: the resolvers that list and delete, invoked on the stores    *)
(* that earlier sessions left                                               *)

ListOps == {"getTasks", "getTasksB", "syncTasks"}
ListDeleteOps == ListOps \cup {"deleteTask"} \cup DeleteOps

InvokeListDelete(c) ==
  /\ FirstIdle(c)
  /\ invoked < MaxListOps
  /\ invoked' = invoked + 1
  /\ \E op \in ListDeleteOps :
       \E id \in IF op \in ListOps THEN {0} ELSE TaskIds :
         calls' = [calls EXCEPT ![c] = NewCall(op, id, "none")]
  /\ UNCHANGED <<store, remote, issues, bg, dashVars, wakeVars, extVars>>

\* The ids of issues[1..k]: the issue of key k was created for task issues[k]
RECURSIVE Ascending(_, _)
Ascending(ids, from) ==
  IF from > NumTasks THEN <<>>
  ELSE (IF from \in ids THEN <<from>> ELSE <<>>) \o Ascending(ids, from + 1)

KeyIn(list, id) == CHOOSE k \in 1..Len(list) : list[k] = id

\* The record of task id left with status st, its issue created with key k
Left(id, st, k) ==
  IF st = "sent" THEN Sent(NewTask(id), k)
  ELSE IF st = "declined" THEN Declined(NewTask(id))
  ELSE NewTask(id)

\* Tasks 1..n are in the 'tasks' list, newest first, with statuses f; the remote
\* store holds tasks with statuses g; every sent task has its issue.
LeftBefore(n, f, g) ==
  LET sentIds == {id \in 1..n : f[id] = "sent"} \cup {id \in TaskIds : g[id] = "sent"}
      created == Ascending(sentIds, 1)
  IN  /\ issues = created
      /\ store = [i \in 1..n |-> Left(n + 1 - i, f[n + 1 - i],
                                       IF f[n + 1 - i] = "sent" THEN KeyIn(created, n + 1 - i) ELSE 0)]
      /\ remote = [id \in TaskIds |->
                     [status |-> g[id],
                      jiraKey |-> IF g[id] = "sent" THEN KeyIn(created, id) ELSE 0]]

InitStores ==
  /\ \E n \in 0..NumTasks :
       \E f \in [1..n -> {"pending", "sent", "declined"}] :
         \E g \in [TaskIds -> {"absent", "pending", "sent"}] : LeftBefore(n, f, g)
  /\ bg = {}
  /\ invoked = 0
  /\ calls = [c \in Slots |-> Idle]
  /\ InitDash
  /\ InitWake
  /\ InitExt

NextStores ==
  \/ \E c \in Slots : InvokeListDelete(c)
  \/ \E c \in Slots : GetTasksRead(c)
  \/ \E c \in Slots : GetTasksWrite(c)
  \/ \E c \in Slots : GetTasksBackend(c)
  \/ \E c \in Slots : SyncTasksFetch(c)
  \/ \E c \in Slots : SyncTasksMirror(c)
  \/ \E c \in Slots : DeleteTaskRead(c)
  \/ \E c \in Slots : DeleteTaskWrite(c)
  \/ \E c \in Slots : DeleteBackend(c)
  \/ \E c \in Slots : Return(c)

SpecStores == InitStores /\ [][NextStores]_vars

---------------------------------------------------------------------------
(* Properties of the resolvers (Spec) *)

StatusOf(tasks, id) == tasks[FindIndex(tasks, id)].status

AllowedEdges ==
  {<<"pending", "sent">>, <<"pending", "declined">>, <<"declined", "pending">>}

\* C1: every change of a stored task's status follows pending->sent,
\* pending->declined or declined->pending (or the record is removed); no step
\* takes a status from declined to sent, from sent to declined or from sent to
\* pending.
C1_StatusEdgesOnly ==
  [][\A id \in TaskIds :
       (FindIndex(store, id) # 0 /\ FindIndex(store', id) # 0
        /\ StatusOf(store', id) # StatusOf(store, id))
       => <<StatusOf(store, id), StatusOf(store', id)>> \in AllowedEdges]_vars

SendOps == {"sendToJira", "sendToJiraB"}

\* The store that holds the task records it as sent with issue key k.
RecordedSent(op, st, rem, id, k) ==
  IF op = "sendToJira"
  THEN /\ FindIndex(st, id) # 0
       /\ st[FindIndex(st, id)].status = "sent"
       /\ st[FindIndex(st, id)].jiraKey = k
  ELSE rem[id] = [status |-> "sent", jiraKey |-> k]

\* C4: whenever sendToJira returns success with issue key k for task t, the
\* store that holds t (the 'tasks' list for the storage variant, the remote
\* store for the backend variant) records t with status sent and jiraKey k.
C4_SuccessMeansRecordedSent ==
  [][\A c \in Slots :
       (calls[c].pc # "done" /\ calls'[c].pc = "done"
        /\ calls'[c].op \in SendOps /\ calls'[c].res = "ok")
       => RecordedSent(calls'[c].op, store', remote', calls'[c].taskId, calls'[c].key)]_vars

CreateFailed(call) == call.op \in SendOps /\ call.createResp \in {"fail", "throw"}

\* C5: when the issue-creation request answers non-2xx or throws, sendToJira
\* (either variant) returns success false, issues no comment request and no
\* write of the task, has no issue key, and the step that receives the answer
\* leaves the 'tasks' list, the remote store and the tracker's issues as
\* they were.
C5_CreateFailureAborts ==
  /\ [](\A c \in Slots :
          CreateFailed(calls[c])
          => /\ calls[c].pc = "done" /\ calls[c].res = "fail"
             /\ ~calls[c].commented /\ ~calls[c].wrote /\ calls[c].key = 0)
  /\ [][\A c \in Slots :
          (~CreateFailed(calls[c]) /\ CreateFailed(calls'[c]))
          => UNCHANGED <<store, remote, issues>>]_vars

\* C5 witness: a storage-variant and a backend-variant sendToJira have both
\* returned after a failed issue creation, one rejected (non-2xx) and one thrown,
\* while the storage variant's task is in the list, still pending
C5_Witness ==
  \E c, d \in Slots :
    /\ calls[c].op = "sendToJira" /\ CreateFailed(calls[c]) /\ calls[c].pc = "done"
    /\ FindIndex(store, calls[c].taskId) # 0
    /\ StatusOf(store, calls[c].taskId) = "pending"
    /\ calls[d].op = "sendToJiraB" /\ CreateFailed(calls[d]) /\ calls[d].pc = "done"
    /\ calls[c].createResp # calls[d].createResp

\* C6: a record of the 'tasks' list carries a jiraKey or a jiraStatus only if
\* its status is sent.
C6_JiraFieldsOnlyWhenSent ==
  \A i \in 1..Len(store) :
    (store[i].jiraKey # 0 \/ store[i].jiraStatus # "none") => store[i].status = "sent"

\* C7: the ids of the 'tasks' list stay pairwise distinct under
\* syncFromBackend, whatever the backend answers.
C7_DistinctIds ==
  \A i, j \in 1..Len(store) : store[i].id = store[j].id => i = j

---------------------------------------------------------------------------
(* SpecCapture: context-menu clicks and the standalone capture windows *)

NextCapture ==
  \/ \E k \in Clicks : ContextMenuClick(k, <<>>)
  \/ \E k \in Clicks : PingAnswered(k)
  \/ \E k \in Clicks : StoreDraft(k)
  \/ \E k \in Clicks : SurfaceReads(k)

SpecCapture == Init /\ [][NextCapture]_vars

\* C13: for every context-menu click on 'donotmiss-capture' with a selection
\* exactly one ping is sent, never a second, and exactly one hand-off follows:
\* after a reply with pong true, one showCaptureModal message and no write of
\* captureTask and no window; after a rejected ping, no reply or a reply without
\* pong, no showCaptureModal, the write of captureTask and then one window. A
\* window is never opened before the write.
C13_OnePingOneHandOff ==
  \A k \in Clicks :
    /\ cap[k].pings <= 1
    /\ cap[k].pc \in {"pinging", "storing", "done"} => cap[k].pings = 1
    /\ cap[k].windows > 0 => cap[k].wrote
    /\ cap[k].pc \in {"pinging", "storing"}
       => cap[k].modals = 0 /\ cap[k].windows = 0 /\ ~cap[k].wrote
    /\ cap[k].pc = "done"
       => IF cap[k].reply = "pong"
          THEN cap[k].modals = 1 /\ ~cap[k].wrote /\ cap[k].windows = 0
          ELSE cap[k].modals = 0 /\ cap[k].wrote /\ cap[k].windows = 1

\* C13 witness: one click was handed to the page after a pong, another took the
\* fallback after a reply that lacks pong
C13_Witness ==
  \E j, k \in Clicks :
    /\ cap[j].pc = "done" /\ cap[j].reply = "pong" /\ cap[j].modals = 1
    /\ cap[k].pc = "done" /\ cap[k].reply = "nopong" /\ cap[k].windows = 1

\* C14: a capture is never silently lost: the draft of every click that took the
\* fallback path is the value of captureTask for as long as the window opened
\* for it has not read the key, and what the window reads is that draft.
C14_DraftStaysReadable ==
  \A k \in Clicks :
    /\ surface[k].st = "open" => captureTask = k
    /\ surface[k].st = "read" => surface[k].draft = k

---------------------------------------------------------------------------
(* Properties of the listing and deleting resolvers (SpecStores) *)

\* C17: deleteTask is idempotent. A storage-variant deleteTask whose list was
\* not written by another invocation since it read it returns success, leaves
\* the 'tasks' list as it was when the id is not in it, and leaves a list that
\* deleting the id again would not change; a backend-variant deleteTask or
\* deleteFromBackend answered 404 returns success and leaves the remote store
\* as it was, and one answered 2xx leaves the id absent, so that deleting it
\* again is answered 404.
C17_DeleteIdempotent ==
  [][\A c \in Slots :
       /\ (/\ At(c, "deleteTask", "write") /\ calls'[c].pc = "done"
           /\ calls[c].tasks = FilterOut(store, calls[c].taskId))
          => /\ calls'[c].res = "ok"
             /\ FindIndex(store, calls[c].taskId) = 0 => store' = store
             /\ FindIndex(store', calls[c].taskId) = 0
             /\ FilterOut(store', calls[c].taskId) = store'
       /\ (/\ calls[c].op \in DeleteOps /\ calls[c].pc = "start" /\ calls'[c].pc = "done"
           /\ remote[calls[c].taskId].status = "absent" /\ calls'[c].out = "404")
          => calls'[c].res = "ok" /\ remote' = remote
       /\ (/\ calls[c].op \in DeleteOps /\ calls[c].pc = "start" /\ calls'[c].pc = "done"
           /\ calls'[c].out = "2xx")
          => calls'[c].res = "ok" /\ remote'[calls[c].taskId].status = "absent"]_vars

\* C17 witness: a backend-variant delete of an absent id, answered 404, and a
\* storage-variant delete of an id that the non-empty list never held have
\* both returned success
C17_Witness ==
  \E c, d \in Slots :
    /\ calls[c].op \in DeleteOps /\ calls[c].pc = "done"
    /\ calls[c].out = "404" /\ calls[c].res = "ok"
    /\ calls[d].op = "deleteTask" /\ calls[d].pc = "done" /\ calls[d].res = "ok"
    /\ Len(store) >= 1 /\ IdsOf(store) = 1..Len(store)
    /\ calls[d].taskId \notin IdsOf(store)

\* C19: the backend-variant getTasks never throws: for every outcome of the GET
\* (2xx, non-2xx, network error, unparsable body) it returns a sequence of
\* tasks, the empty one on every failure.
C19_ListNeverThrows ==
  \A c \in Slots :
    (calls[c].op = "getTasksB" /\ calls[c].pc = "done")
    => /\ calls[c].out \in StoreOutcomes
       /\ calls[c].res = "ok"
       /\ DOMAIN calls[c].tasks = 1..Len(calls[c].tasks)
       /\ calls[c].out # "2xx" => calls[c].tasks = <<>>

\* C19 witness: one getTasks returned the empty list for a body that did not
\* parse, another returned the tasks of a 2xx answer
C19_Witness ==
  \E c, d \in Slots :
    /\ calls[c].op = "getTasksB" /\ calls[c].pc = "done"
    /\ calls[c].out = "badbody" /\ calls[c].tasks = <<>>
    /\ calls[d].op = "getTasksB" /\ calls[d].pc = "done"
    /\ calls[d].out = "2xx" /\ calls[d].tasks # <<>>

\* Each task of `before` with a successful status request has its jiraStatus
\* overlaid in `after`, each other task is as it was, and all tasks are there.
MirroredEach(before, m, after) ==
  /\ Len(after) = Len(before)
  /\ \A i \in 1..Len(before) :
       after[i] = IF Eligible(before[i]) /\ m[i] # "fail"
                  THEN [before[i] EXCEPT !.jiraStatus = m[i]]
                  ELSE before[i]

\* C20: status mirroring treats each task independently: in getTasks (storage
\* variant) and in syncTasks a tracker failure for one sent task leaves that
\* task's record as it was and does not abort the batch; every other sent task
\* with a jiraKey whose request succeeds has its jiraStatus overlaid; all tasks
\* are returned, with success.
C20_MirrorPerTask ==
  [][\A c \in Slots :
       /\ (At(c, "getTasks", "start") /\ calls'[c].pc = "write")
          => MirroredEach(store, calls'[c].mirror, calls'[c].tasks)
       /\ (At(c, "getTasks", "write") /\ calls'[c].pc = "done")
          => calls'[c].tasks = calls[c].tasks /\ calls'[c].res = "ok"
       /\ (At(c, "syncTasks", "mirror") /\ calls'[c].pc = "done")
          => /\ MirroredEach(calls[c].tasks, calls'[c].mirror, calls'[c].tasks)
             /\ calls'[c].res = "ok"]_vars

\* The answers m hold a failure for one sent task and a status for another
MixedAnswers(m) ==
  \E i, j \in 1..Len(m) : m[i] = "fail" /\ m[j] \in MirrorOutcomes \ {"fail"}

\* C20 witness: a getTasks and a syncTasks have both returned after the tracker
\* failed for one sent task and answered for another
C20_Witness ==
  \E c, d \in Slots :
    /\ calls[c].op = "getTasks" /\ calls[c].pc = "done" /\ MixedAnswers(calls[c].mirror)
    /\ calls[d].op = "syncTasks" /\ calls[d].pc = "done" /\ MixedAnswers(calls[d].mirror)

---------------------------------------------------------------------------
(* SpecWake: the popup waking the backend *)

\* resolve(true), or `return true` of the async function: the promise settles
\* the first time only, and the code awaiting it is resumed once per settling.
PromiseResolve ==
  /\ resolveCalls' = resolveCalls + 1
  /\ settled' = "true"
  /\ continued' = IF settled = "pending" THEN continued + 1 ELSE continued

\* OnAwake without hiding the wake-up screen
OnAwake_KeepsScreen ==
  /\ timerActive' = FALSE
  /\ wakeupScreen' = wakeupScreen
  /\ mainContent' = mainContent
  /\ PromiseResolve

\* OnAwake without clearInterval(checkInterval)
OnAwake_KeepsTimer ==
  /\ timerActive' = timerActive
  /\ wakeupScreen' = "none"
  /\ mainContent' = "block"
  /\ PromiseResolve

\* lines 53-57 and 64-68: the body of `if (awake) { ... }`
OnAwake ==
  /\ timerActive' = FALSE
  /\ wakeupScreen' = "none"
  /\ mainContent' = "block"
  /\ PromiseResolve

\* DOMContentLoaded: wakeUpBackend() is called and makes its first quick check.
StartWake ==
  /\ wpc = "idle"
  /\ wpc' = "first"
  /\ probe' = [probe EXCEPT ![FirstProbe] = Flying]
  /\ UNCHANGED <<lastCheck, timerActive, timerLeft, attempt, wakeupScreen, mainContent,
                 resolveCalls, settled, continued, backendUp,
                 forgeVars, calls, dashVars, extVars>>

\* checkBackendHealth returns true: the response arrived, within the timeout, OK.
ProbeOk(p) ==
  /\ MayEnd(p, "2xx")
  /\ probe' = [probe EXCEPT ![p] = Landed("2xx")]
  /\ lastCheck' = Checked("2xx")

\* checkBackendHealth returns false: non-2xx, a network error, or the abort
\* after WAKEUP_TIMEOUT.
ProbeFalse(p) ==
  \E o \in HealthOutcomes \ {"2xx"} :
    /\ MayEnd(p, o)
    /\ probe' = [probe EXCEPT ![p] = Landed(o)]
    /\ lastCheck' = Checked(o)

\* line 36-39: the first check succeeds, wakeUpBackend returns true
FirstCheckAwake ==
  /\ wpc = "first"
  /\ ProbeOk(FirstProbe)
  /\ wpc' = "returned"
  /\ PromiseResolve
  /\ UNCHANGED <<timerActive, timerLeft, attempt, wakeupScreen, mainContent, backendUp,
                 forgeVars, calls, dashVars, extVars>>

\* lines 41-71: the first check fails: the wake-up screen is shown, the interval
\* timer is created and the immediate check is started
FirstCheckAsleep ==
  /\ wpc = "first"
  /\ \E o \in HealthOutcomes \ {"2xx"} :
       /\ MayEnd(FirstProbe, o)
       /\ probe' = [probe EXCEPT ![FirstProbe] = Landed(o),
                                 ![ImmediateProbe] = Flying]
       /\ lastCheck' = Checked(o)
  /\ wpc' = "polling"
  /\ wakeupScreen' = "flex"
  /\ mainContent' = "none"
  /\ timerActive' = TRUE
  /\ timerLeft' = WAKEUP_CHECK_INTERVAL
  /\ UNCHANGED <<attempt, resolveCalls, settled, continued, backendUp,
                 forgeVars, calls, dashVars, extVars>>

\* lines 47-51: the interval timer fires: attempt++ and a new check is started
IntervalFires ==
  /\ timerActive
  /\ timerLeft = 0
  /\ attempt < MaxAttempt
  /\ attempt' = attempt + 1
  /\ probe' = [probe EXCEPT ![IntervalProbe(attempt + 1)] = Flying]
  /\ timerLeft' = WAKEUP_CHECK_INTERVAL
  /\ UNCHANGED <<lastCheck, wpc, timerActive, wakeupScreen, mainContent, resolveCalls, settled,
                 continued, backendUp,
                 forgeVars, calls, dashVars, extVars>>

\* lines 51-58: the check of an interval tick returns
IntervalCheckAwake(p) ==
  /\ p \notin {FirstProbe, ImmediateProbe}
  /\ ProbeOk(p)
  /\ OnAwake
  /\ UNCHANGED <<wpc, timerLeft, attempt, backendUp,
                 forgeVars, calls, dashVars, extVars>>

\* lines 62-70: the immediate check returns
ImmediateCheckAwake ==
  /\ ProbeOk(ImmediateProbe)
  /\ OnAwake
  /\ UNCHANGED <<wpc, timerLeft, attempt, backendUp,
                 forgeVars, calls, dashVars, extVars>>

\* PollCheckAsleep giving up: the timer is cleared when a check returns false
PollCheckAsleep_GivesUp(p) ==
  /\ p # FirstProbe
  /\ ProbeFalse(p)
  /\ timerActive' = FALSE
  /\ UNCHANGED <<wpc, timerLeft, attempt, wakeupScreen, mainContent,
                 resolveCalls, settled, continued, backendUp,
                 forgeVars, calls, dashVars, extVars>>

\* `if (awake)` is false: nothing is done
PollCheckAsleep(p) ==
  /\ p # FirstProbe
  /\ ProbeFalse(p)
  /\ UNCHANGED <<wpc, timerActive, timerLeft, attempt, wakeupScreen, mainContent,
                 resolveCalls, settled, continued, backendUp,
                 forgeVars, calls, dashVars, extVars>>

\* One second passes: no check is older than its timeout, no timer is overdue.
Tick ==
  /\ InFlight # {} \/ timerActive
  /\ \A p \in InFlight : probe[p].age < WAKEUP_TIMEOUT
  /\ timerActive => timerLeft > 0
  /\ probe' = [p \in Probes |->
                 IF probe[p].st = "flying" THEN [probe[p] EXCEPT !.age = @ + 1]
                 ELSE probe[p]]
  /\ timerLeft' = IF timerActive THEN timerLeft - 1 ELSE timerLeft
  /\ UNCHANGED <<lastCheck, wpc, timerActive, attempt, wakeupScreen, mainContent, resolveCalls,
                 settled, continued, backendUp,
                 forgeVars, calls, dashVars, extVars>>

\* The suspended backend finishes starting, or is suspended again.
BackendWakes ==
  /\ ~backendUp
  /\ backendUp' = TRUE
  /\ UNCHANGED <<lastCheck, wpc, probe, timerActive, timerLeft, attempt, wakeupScreen, mainContent,
                 resolveCalls, settled, continued,
                 forgeVars, calls, dashVars, extVars>>

BackendSleeps ==
  /\ backendUp
  /\ backendUp' = FALSE
  /\ UNCHANGED <<lastCheck, wpc, probe, timerActive, timerLeft, attempt, wakeupScreen, mainContent,
                 resolveCalls, settled, continued,
                 forgeVars, calls, dashVars, extVars>>

NextWake ==
  \/ StartWake
  \/ FirstCheckAwake
  \/ FirstCheckAsleep
  \/ IntervalFires
  \/ \E p \in Probes : IntervalCheckAwake(p)
  \/ ImmediateCheckAwake
  \/ \E p \in Probes : PollCheckAsleep(p)
  \/ Tick
  \/ BackendWakes
  \/ BackendSleeps

SpecWake == Init /\ [][NextWake]_vars

---------------------------------------------------------------------------
(* SpecWakeLive: wakeUpBackend polling without an end *)

\* The interval checks that have returned false
ReturnedFalse == {p \in Probes : p > ImmediateProbe /\ probe[p].st = "fail"}

\* lines 47-51 once `attempt` has passed MaxAttempt: the counter is followed no
\* further, and the new check is recorded in the place of the oldest-numbered
\* interval check that has returned false.
IntervalFiresAgain ==
  /\ timerActive
  /\ timerLeft = 0
  /\ attempt = MaxAttempt
  /\ ReturnedFalse # {}
  /\ LET p == CHOOSE q \in ReturnedFalse : \A r \in ReturnedFalse : q <= r
     IN  probe' = [probe EXCEPT ![p] = Flying]
  /\ timerLeft' = WAKEUP_CHECK_INTERVAL
  /\ UNCHANGED <<lastCheck, wpc, timerActive, attempt, wakeupScreen, mainContent, resolveCalls,
                 settled, continued, backendUp,
                 forgeVars, calls, dashVars, extVars>>

\* A call of checkBackendHealth returns, with either value
CheckReturns ==
  \/ FirstCheckAwake
  \/ FirstCheckAsleep
  \/ ImmediateCheckAwake
  \/ \E p \in Probes : IntervalCheckAwake(p)
  \/ \E p \in Probes : PollCheckAsleep(p)

\* A call of checkBackendHealth returns false
CheckFails == FirstCheckAsleep \/ \E p \in Probes : PollCheckAsleep(p)

TimerFires == IntervalFires \/ IntervalFiresAgain

\* part_000 lines 90-92: the listener goes on after each of its awaits
ListenerGoesOn == LoadAfterWake \/ LoadFetched(Listener) \/ LoadLocal(Listener)

NextWakeLive ==
  \/ StartWake
  \/ FirstCheckAwake
  \/ FirstCheckAsleep
  \/ IntervalFires
  \/ IntervalFiresAgain
  \/ \E p \in Probes : IntervalCheckAwake(p)
  \/ ImmediateCheckAwake
  \/ \E p \in Probes : PollCheckAsleep(p)
  \/ Tick
  \/ BackendWakes
  \/ BackendSleeps
  \/ LoadAfterWake
  \/ LoadFetched(Listener)
  \/ LoadLocal(Listener)

\* DOMContentLoaded is dispatched, time passes, a timer that is due fires, and
\* every health request ends (the abort ends it after WAKEUP_TIMEOUT at the latest).
FairWake ==
  /\ WF_vars(StartWake)
  /\ WF_vars(Tick)
  /\ WF_vars(TimerFires)
  /\ WF_vars(CheckReturns)
  /\ WF_vars(ListenerGoesOn)

SpecWakeLive == Init /\ [][NextWakeLive]_vars /\ FairWake

---------------------------------------------------------------------------
(* Properties of wakeUpBackend (SpecWake) *)

\* C8: wakeUpBackend resolves exactly once, with true, and once it has resolved
\* the wake-up screen is hidden and the main content is shown, however many
\* checks succeed and in whatever order.
C8_ResolvesOnceScreenHidden ==
  /\ continued <= 1
  /\ (resolveCalls > 0) = (settled = "true")
  /\ (settled = "true") = (continued = 1)
  /\ settled = "true" => wakeupScreen = "none" /\ mainContent = "block"

\* C8 witness: the immediate check and an interval check have both succeeded
\* after the wake-up screen was shown, so resolve(true) ran more than once
C8_Witness ==
  /\ probe[ImmediateProbe].st = "ok"
  /\ \E p \in Probes : p > ImmediateProbe /\ probe[p].st = "ok"
  /\ resolveCalls >= 2
  /\ settled = "true"

\* C9: during wakeUpBackend at most one health check is in flight at any time.
C9_AtMostOneProbeInFlight == Cardinality(InFlight) <= 1

\* C10: once a health check has succeeded, the interval timer is cleared and no
\* further health check is started.
C10_NoProbeAfterSuccess ==
  /\ [](Succeeded # {} => ~timerActive)
  /\ [][Succeeded # {} => Started' = Started]_vars

\* C10 witness: an interval check succeeded while the timer had ticks left to
\* give and another check was still in flight
C10_Witness ==
  /\ \E p \in Probes : p > ImmediateProbe /\ probe[p].st = "ok"
  /\ attempt < MaxAttempt
  /\ InFlight # {}
  /\ ~timerActive

\* C11: wakeUpBackend never gives up: it never settles with a value other than
\* true; while it polls and no check has succeeded the interval timer stays set,
\* and for ever either the timer fires again, starting another check, or the
\* promise has resolved; and if from some moment on the health endpoint answers
\* OK and no check fails any more, wakeUpBackend eventually resolves true.
C11_NeverGivesUp ==
  /\ [](settled \in {"pending", "true"})
  /\ [](wpc = "polling" /\ Succeeded = {} => timerActive)
  /\ ([]<>(settled = "true") \/ []<><<TimerFires>>_vars)
  /\ ((<>[]backendUp /\ <>[][~CheckFails]_vars) => <>(settled = "true"))

\* C11 witness: the first, the immediate and all but one of the interval checks
\* returned false, `attempt` reached the model's bound, and then a check
\* succeeded and the promise resolved true
C11_Witness ==
  /\ settled = "true"
  /\ attempt = MaxAttempt
  /\ Cardinality({p \in Probes : probe[p].st = "fail"}) = MaxAttempt + 1
  /\ Cardinality(Succeeded) = 1

\* C12: checkBackendHealth never throws: whatever the outcome of the health
\* request (2xx, non-2xx, network error, abort after the timeout), every check
\* that has ended returned a boolean, true exactly when the response was OK.
C12_HealthCheckReturnsBoolean ==
  lastCheck.out # "none"
  => /\ lastCheck.out \in HealthOutcomes
     /\ lastCheck.ret.kind = "return"
     /\ lastCheck.ret.value \in BOOLEAN
     /\ lastCheck.ret.value = (lastCheck.out = "2xx")

\* C12 witness: a check whose request was aborted after WAKEUP_TIMEOUT has
\* returned, after an earlier check had found the backend awake
C12_Witness ==
  /\ lastCheck.out = "abort"
  /\ Succeeded # {}
  /\ \E p \in Probes : probe[p].st = "fail"

---------------------------------------------------------------------------
(* SpecDash: the dashboard (App) driving the storage-variant resolvers *)

\* filteredTasks with 'all' showing every task
Shown_AllShowsDeclined(t) ==
  CASE filter = "pending" -> t.status = "pending"
    [] filter = "sent" -> t.status = "sent"
    [] filter = "declined" -> t.status = "declined"
    [] OTHER -> TRUE

\* filteredTasks
Shown(t) ==
  CASE filter = "all" -> t.status # "declined"
    [] filter = "pending" -> t.status = "pending"
    [] filter = "sent" -> t.status = "sent"
    [] filter = "declined" -> t.status = "declined"
    [] OTHER -> TRUE

FilteredTasks == SelectSeq(uiTasks, Shown)

\* The cards rendered: none while `loading`
Cards == IF uiLoading THEN <<>> ELSE FilteredTasks

\* The buttons of a card's task-actions, by the status it is displayed with
Buttons(t) ==
  CASE t.status = "pending" -> {"Decline", "Send to Jira"}
    [] t.status = "sent" -> {"Open"}
    [] t.status = "declined" -> {"Delete", "Restore"}
    [] OTHER -> {}

\* ... and the assign modal, rendered inside the card whose id is showAssignModal
Controls(t) ==
  Buttons(t) \cup (IF showAssignModal = t.id THEN {"Close", "Assign"} ELSE {})

\* Some card of task id offers the control
HasControl(id, control) ==
  \E i \in 1..Len(Cards) : Cards[i].id = id /\ control \in Controls(Cards[i])

\* invoke(op, { taskId: id }) awaited by the handler `cont`
DashInvoke(op, id, cont) ==
  /\ invoked < MaxClicks
  /\ invoked' = invoked + 1
  /\ \E c \in Slots :
       /\ FirstIdle(c)
       /\ calls' = [calls EXCEPT ![c] = NewCall(op, id, cont)]

\* refreshTasks(), started by the handler that was awaiting slot c
RefreshIn(c, cont) == calls' = [calls EXCEPT ![c] = NewCall("getTasks", 0, cont)]

\* onClick of 'Send to Jira': setShowAssignModal(task.id)
ClickSendToJira(id) ==
  /\ HasControl(id, "Send to Jira")
  /\ actionLoading[id] = "null"
  /\ showAssignModal # id
  /\ showAssignModal' = id
  /\ UNCHANGED <<forgeVars, calls, uiTasks, uiLoading, filter, actionLoading, syncing,
                 wakeVars, extVars>>

\* onClick of the modal's close button: setShowAssignModal(null)
CloseAssignModal ==
  /\ \E id \in TaskIds : HasControl(id, "Close")
  /\ showAssignModal' = 0
  /\ UNCHANGED <<forgeVars, calls, uiTasks, uiLoading, filter, actionLoading, syncing,
                 wakeVars, extVars>>

\* onClick of an assign option: handleSendToJira up to its await
ClickAssignOption(id) ==
  /\ HasControl(id, "Assign")
  /\ actionLoading' = [actionLoading EXCEPT ![id] = "sending"]
  /\ DashInvoke("sendToJira", id, "send")
  /\ UNCHANGED <<store, remote, issues, bg, uiTasks, uiLoading, filter, showAssignModal,
                 syncing, wakeVars, extVars>>

\* onClick of Decline, Restore, Delete: the handler up to its await
ClickAction(id, button, loadingText, op, cont) ==
  /\ HasControl(id, button)
  /\ actionLoading[id] = "null"
  /\ actionLoading' = [actionLoading EXCEPT ![id] = loadingText]
  /\ DashInvoke(op, id, cont)
  /\ UNCHANGED <<store, remote, issues, bg, uiTasks, uiLoading, filter, showAssignModal,
                 syncing, wakeVars, extVars>>

ClickDecline(id) == ClickAction(id, "Decline", "declining", "declineTask", "decline")
ClickRestore(id) == ClickAction(id, "Restore", "restoring", "restoreTask", "restore")
ClickDelete(id) == ClickAction(id, "Delete", "deleting", "deleteTask", "delete")

\* handleClearAll invoking clearTasks whatever window.confirm returned
ClickClearAll_NoConfirm(answer) ==
  /\ ~uiLoading
  /\ DashInvoke("clearTasks", 0, "clear")
  /\ UNCHANGED <<store, remote, issues, bg, dashVars, wakeVars, extVars>>

\* handleClearAll up to its await; answer is what window.confirm returned
ClickClearAll(answer) ==
  /\ ~uiLoading
  /\ IF answer
     THEN /\ DashInvoke("clearTasks", 0, "clear")
          /\ UNCHANGED <<store, remote, issues, bg, dashVars, wakeVars, extVars>>
     ELSE UNCHANGED vars

\* handleSyncFromBackend up to its await
ClickSync ==
  /\ ~uiLoading
  /\ ~syncing
  /\ syncing' = TRUE
  /\ DashInvoke("syncFromBackend", 0, "sync")
  /\ UNCHANGED <<store, remote, issues, bg, uiTasks, uiLoading, filter, showAssignModal,
                 actionLoading, wakeVars, extVars>>

SetFilter(f) ==
  /\ ~uiLoading
  /\ f # filter
  /\ filter' = f
  /\ UNCHANGED <<forgeVars, calls, uiTasks, uiLoading, showAssignModal, actionLoading,
                 syncing, wakeVars, extVars>>

\* loadTasks / refreshTasks after its await: setTasks(data || []), or the
\* catch when the invoke was rejected
DeliverTasks(c) ==
  /\ calls[c].pc = "done"
  /\ calls[c].cont \in {"load", "refresh", "syncRefresh"}
  /\ uiTasks' = IF calls[c].res = "threw" THEN uiTasks ELSE calls[c].tasks
  /\ uiLoading' = IF calls[c].cont = "load" THEN FALSE ELSE uiLoading
  /\ syncing' = IF calls[c].cont = "syncRefresh" THEN FALSE ELSE syncing
  /\ calls' = [calls EXCEPT ![c] = Idle]
  /\ UNCHANGED <<forgeVars, filter, showAssignModal, actionLoading, wakeVars, extVars>>

\* handleSendToJira after its await
DeliverSend(c) ==
  /\ calls[c].pc = "done"
  /\ calls[c].cont = "send"
  /\ IF calls[c].res = "ok"
     THEN /\ bg' = bg \cup {[op |-> "markSentOnBackend", taskId |-> calls[c].taskId]}
          /\ RefreshIn(c, "refresh")
     ELSE /\ bg' = bg
          /\ calls' = [calls EXCEPT ![c] = Idle]
  /\ actionLoading' = [actionLoading EXCEPT ![calls[c].taskId] = "null"]
  /\ showAssignModal' = 0
  /\ UNCHANGED <<store, remote, issues, invoked, uiTasks, uiLoading, filter, syncing,
                 wakeVars, extVars>>

\* DeliverDecline with the catch leaving the card disabled
DeliverDecline_NoReset(c) ==
  /\ calls[c].pc = "done"
  /\ calls[c].cont = "decline"
  /\ IF calls[c].res = "threw"
     THEN /\ bg' = bg
          /\ calls' = [calls EXCEPT ![c] = Idle]
          /\ actionLoading' = actionLoading
     ELSE /\ bg' = bg \cup {[op |-> "deleteFromBackend", taskId |-> calls[c].taskId]}
          /\ RefreshIn(c, "refresh")
          /\ actionLoading' = [actionLoading EXCEPT ![calls[c].taskId] = "null"]
  /\ UNCHANGED <<store, remote, issues, invoked, uiTasks, uiLoading, filter,
                 showAssignModal, syncing, wakeVars, extVars>>

\* handleDecline after its await; a rejected invoke goes to the catch
DeliverDecline(c) ==
  /\ calls[c].pc = "done"
  /\ calls[c].cont = "decline"
  /\ IF calls[c].res = "threw"
     THEN /\ bg' = bg
          /\ calls' = [calls EXCEPT ![c] = Idle]
     ELSE /\ bg' = bg \cup {[op |-> "deleteFromBackend", taskId |-> calls[c].taskId]}
          /\ RefreshIn(c, "refresh")
  /\ actionLoading' = [actionLoading EXCEPT ![calls[c].taskId] = "null"]
  /\ UNCHANGED <<store, remote, issues, invoked, uiTasks, uiLoading, filter,
                 showAssignModal, syncing, wakeVars, extVars>>

\* handleRestore and handleDelete after their await; a rejected invoke goes
\* to the catch
DeliverRestoreDelete(c) ==
  /\ calls[c].pc = "done"
  /\ calls[c].cont \in {"restore", "delete"}
  /\ IF calls[c].res = "threw"
     THEN calls' = [calls EXCEPT ![c] = Idle]
     ELSE RefreshIn(c, "refresh")
  /\ actionLoading' = [actionLoading EXCEPT ![calls[c].taskId] = "null"]
  /\ UNCHANGED <<forgeVars, uiTasks, uiLoading, filter, showAssignModal, syncing,
                 wakeVars, extVars>>

\* handleClearAll after its await; a rejected invoke ends the handler
DeliverClear(c) ==
  /\ calls[c].pc = "done"
  /\ calls[c].cont = "clear"
  /\ IF calls[c].res = "threw"
     THEN calls' = [calls EXCEPT ![c] = Idle]
     ELSE RefreshIn(c, "refresh")
  /\ UNCHANGED <<forgeVars, dashVars, wakeVars, extVars>>

\* handleSyncFromBackend after its await: `await refreshTasks()` on success
DeliverSync(c) ==
  /\ calls[c].pc = "done"
  /\ calls[c].cont = "sync"
  /\ IF calls[c].res = "ok"
     THEN /\ RefreshIn(c, "syncRefresh")
          /\ syncing' = syncing
     ELSE /\ calls' = [calls EXCEPT ![c] = Idle]
          /\ syncing' = FALSE
  /\ UNCHANGED <<forgeVars, uiTasks, uiLoading, filter, showAssignModal, actionLoading,
                 wakeVars, extVars>>

\* Tasks 1..n were synced from the remote store in an earlier session.
SyncedBefore(n) ==
  /\ store = [i \in 1..n |-> NewTask(n + 1 - i)]
  /\ remote = [id \in TaskIds |->
                 [status |-> IF id <= n THEN "pending" ELSE "absent", jiraKey |-> 0]]
  /\ issues = <<>>
  /\ bg = {}
  /\ invoked = 0

\* useEffect(() => { loadTasks(); ... }, []): getTasks is in flight at mount
InitDashMounted ==
  /\ \E n \in 0..NumTasks : SyncedBefore(n)
  /\ calls = [c \in Slots |-> IF c = 1 THEN NewCall("getTasks", 0, "load") ELSE Idle]
  /\ InitDash
  /\ InitWake
  /\ InitExt

NextDash ==
  \/ \E id \in TaskIds : ClickSendToJira(id)
  \/ CloseAssignModal
  \/ \E id \in TaskIds : ClickAssignOption(id)
  \/ \E id \in TaskIds : ClickDecline(id)
  \/ \E id \in TaskIds : ClickRestore(id)
  \/ \E id \in TaskIds : ClickDelete(id)
  \/ \E answer \in BOOLEAN : ClickClearAll(answer)
  \/ ClickSync
  \/ \E f \in {"all", "pending", "sent", "declined"} : SetFilter(f)
  \/ \E c \in Slots : DeliverTasks(c)
  \/ \E c \in Slots : DeliverSend(c)
  \/ \E c \in Slots : DeliverDecline(c)
  \/ \E c \in Slots : DeliverRestoreDelete(c)
  \/ \E c \in Slots : DeliverClear(c)
  \/ \E c \in Slots : DeliverSync(c)
  \/ \E c \in Slots : StorageStep(c)
  \/ \E r \in bg : BackendRequest(r)
  \/ \E id \in TaskIds : SubmitTask(id)

SpecDash == InitDashMounted /\ [][NextDash]_vars

---------------------------------------------------------------------------
(* Properties of the dashboard (SpecDash) *)

IssuesFor(id) == {k \in 1..Len(issues) : issues[k] = id}

\* C2: a task is sent exactly once: for every task, at most one issue-creation
\* request succeeds in the tracker.
C2_AtMostOneIssuePerTask == \A id \in TaskIds : Cardinality(IssuesFor(id)) <= 1

\* C3: a task displayed with status declined exposes no control that invokes
\* sendToJira for it: neither the 'Send to Jira' button nor an option of the
\* assign modal.
C3_DeclinedHasNoSendControl ==
  \A i \in 1..Len(Cards) :
    Cards[i].status = "declined" => Controls(Cards[i]) = {"Delete", "Restore"}

---------------------------------------------------------------------------
(* SpecDashLive: the dashboard with invocations that may be rejected, and  *)
(* every invocation answered in the end                                    *)

\* invoke(...) is rejected (the bridge or the function failed): the handler's
\* catch runs; nothing was stored
InvokeRejects(c) ==
  /\ calls[c].pc = "start"
  /\ calls[c].cont # "none"
  /\ calls' = [calls EXCEPT ![c].pc = "done", ![c].res = "threw"]
  /\ UNCHANGED <<forgeVars, dashVars, wakeVars, extVars>>

\* An invocation goes on, or the handler awaiting it is resumed
Answering ==
  \E c \in Slots :
    \/ StorageStep(c)
    \/ DeliverTasks(c) \/ DeliverSend(c) \/ DeliverDecline(c)
    \/ DeliverRestoreDelete(c) \/ DeliverClear(c) \/ DeliverSync(c)

NextDashLive ==
  \/ \E id \in TaskIds : ClickSendToJira(id)
  \/ \E id \in TaskIds : ClickAssignOption(id)
  \/ \E id \in TaskIds : ClickDecline(id)
  \/ \E id \in TaskIds : ClickRestore(id)
  \/ \E id \in TaskIds : ClickDelete(id)
  \/ \E answer \in BOOLEAN : ClickClearAll(answer)
  \/ ClickSync
  \/ \E f \in {"all", "declined"} : SetFilter(f)
  \/ \E c \in Slots : InvokeRejects(c)
  \/ \E c \in Slots : DeliverTasks(c)
  \/ \E c \in Slots : DeliverSend(c)
  \/ \E c \in Slots : DeliverDecline(c)
  \/ \E c \in Slots : DeliverRestoreDelete(c)
  \/ \E c \in Slots : DeliverClear(c)
  \/ \E c \in Slots : DeliverSync(c)
  \/ \E c \in Slots : StorageStep(c)

InitDashLive ==
  /\ SyncedBefore(NumTasks)
  /\ calls = [c \in Slots |-> IF c = 1 THEN NewCall("getTasks", 0, "load") ELSE Idle]
  /\ InitDash
  /\ InitWake
  /\ InitExt

SpecDashLive == InitDashLive /\ [][NextDashLive]_vars /\ WF_vars(Answering)

\* C23: the dashboard stays usable after any single failed call: whatever the
\* outcome of a Send, Decline, Restore or Delete action (success, failure
\* result, rejected invoke), actionLoading of its task is eventually null
\* again, and the syncing flag is eventually reset after every sync.
C23_ControlsEnabledAgain ==
  /\ \A id \in TaskIds : (actionLoading[id] # "null") ~> (actionLoading[id] = "null")
  /\ syncing ~> ~syncing

\* Task 1 was declined and its card enabled again (Restore is offered only
\* then); the restoreTask invocation that followed was rejected and its
\* handler is about to go through its catch.
C23_Witness ==
  \E c \in Slots :
    /\ calls[c].pc = "done" /\ calls[c].res = "threw" /\ calls[c].cont = "restore"
    /\ actionLoading[calls[c].taskId] = "restoring"
    /\ \E i \in 1..Len(store) : store[i].id = calls[c].taskId /\ store[i].status = "declined"

\* C24: Clear all requires the user's confirmation: a step that starts a
\* clearTasks invocation is a step of handleClearAll in which window.confirm
\* returned true, and a handleClearAll in which it returned false issues no
\* request and leaves the stored and the displayed task list as they were.
C24_ClearNeedsConfirmation ==
  /\ [][(\E c \in Slots : calls'[c].op = "clearTasks" /\ calls[c].op # "clearTasks")
        => ClickClearAll(TRUE)]_vars
  /\ [][ClickClearAll(FALSE) => UNCHANGED <<store, calls, bg, invoked, uiTasks>>]_vars

\* A confirmed Clear all has emptied the 'tasks' list while the dashboard
\* still displays tasks
C24_Witness ==
  \E c \in Slots :
    /\ calls[c].op = "clearTasks" /\ calls[c].pc = "done" /\ calls[c].cont = "clear"
    /\ store = <<>> /\ uiTasks # <<>>

\* No resolver invocation and no fire-and-forget request is in flight
Quiet == bg = {} /\ \A c \in Slots : calls[c] = Idle

\* C22: after the dashboard's actions the list is re-fetched to reflect the
\* stored state: once no request is in flight, the task list displayed by the
\* dashboard equals the stored 'tasks' list, in whatever order the responses
\* of overlapping refreshes arrived.
C22_DisplayedIsStored == (Quiet /\ ~uiLoading) => uiTasks = store

---------------------------------------------------------------------------
(* SpecPopup: the popup's task list, once the backend has answered awake *)

\* The state in which `await wakeUpBackend()` of line 90 has resolved on the
\* first check
Woken ==
  /\ wpc = "returned"
  /\ probe = [p \in Probes |-> IF p = FirstProbe THEN Landed("2xx") ELSE Unstarted]
  /\ lastCheck = Checked("2xx")
  /\ timerActive = FALSE
  /\ timerLeft = 0
  /\ attempt = 0
  /\ wakeupScreen = "none"
  /\ mainContent = "block"
  /\ resolveCalls = 1
  /\ settled = "true"
  /\ continued = 1
  /\ backendUp = TRUE

\* Task 2 may be pending in the remote store from an earlier session
InitPopupOpened ==
  /\ store = <<>>
  /\ \E st \in {"absent", "pending"} :
       remote = [id \in TaskIds |->
                  [status |-> IF id = 2 THEN st ELSE "absent", jiraKey |-> 0]]
  /\ issues = <<>>
  /\ bg = {}
  /\ invoked = 0
  /\ calls = [c \in Slots |-> Idle]
  /\ InitDash
  /\ Woken
  /\ InitExt

NextPopup ==
  \/ LoadAfterWake
  \/ \E h \in {Listener} \cup Handlers : LoadFetched(h)
  \/ \E h \in {Listener} \cup Handlers : LoadLocal(h)
  \/ \E h \in Handlers, action \in {"add", "dismiss"}, index \in 1..NumTasks :
       ClickTask(h, action, index)
  \/ \E h \in Handlers : HandlerReads(h)
  \/ \E h \in Handlers : SubmitAnswered(h)
  \/ \E h \in Handlers : FeedbackShown(h)
  \/ \E h \in Handlers : Animated(h)
  \/ \E h \in Handlers : DeleteAnswered(h)
  \/ \E h \in Handlers : HandlerWrites(h)
  \/ BackendWakes
  \/ BackendSleeps

SpecPopup == InitPopupOpened /\ [][NextPopup]_vars

---------------------------------------------------------------------------
(* Properties of the popup (SpecPopup, SpecWakeLive) *)

Holds(tasks, task) == \E i \in 1..Len(tasks) : tasks[i] = task

\* C15: 'add' removes a task from pendingTasks only after its submission has
\* succeeded: whenever a handleTaskAction run for 'add' whose submitTask
\* response has success false writes pendingTasks, a task the list held
\* before the write is still held after it.
C15_FailedAddKeepsTask ==
  [][\A h \in Handlers :
       (/\ HandlerWrites(h)
        /\ hta[h].action = "add"
        /\ ~hta[h].resp.success)
       => \A i \in 1..Len(pendingTasks) : Holds(pendingTasks', pendingTasks[i])]_vars

\* C18: for every non-2xx response to POST /tasks, whatever its body, the
\* submitTask caller receives success false with the server's error message
\* when the body carries one, and with 'Backend error: <status>' otherwise.
C18_Non2xxErrorMessage ==
  \A h \in Handlers :
    hta[h].sub.status = "non2xx" =>
      hta[h].resp = [success |-> FALSE,
                     error |-> IF hta[h].sub.body = "error" THEN "server" ELSE "generic"]

\* C16: when the remote store is unreachable throughout (every health probe
\* and the task fetch fail), the popup eventually displays the pendingTasks
\* list of local storage.
C16_LocalListShown ==
  ([]~backendUp) => <>(popView.loaded /\ popView.tasks = pendingTasks)

---------------------------------------------------------------------------
(* SpecDecline: declining on the dashboard and dismissing in the popup,    *)
(* both of which ask the remote store to delete the task                   *)

InitDecline ==
  /\ SyncedBefore(NumTasks)
  /\ calls = [c \in Slots |-> IF c = 1 THEN NewCall("getTasks", 0, "load") ELSE Idle]
  /\ InitDash
  /\ Woken
  /\ InitExt

\* The user's clicks in one behaviour, on either surface
Clicked == invoked + Cardinality({h \in Handlers : hta[h].pc # "idle"})

DeclineOnDashboard(id) == Clicked < MaxClicks /\ ClickDecline(id)

DismissInPopup(h, index) == Clicked < MaxClicks /\ ClickTask(h, "dismiss", index)

NextDecline ==
  \/ \E id \in TaskIds : DeclineOnDashboard(id)
  \/ \E c \in Slots : DeclineTaskRead(c)
  \/ \E c \in Slots : DeclineTaskWrite(c)
  \/ \E c \in Slots : DeliverDecline(c)
  \/ \E c \in Slots : GetTasksRead(c)
  \/ \E c \in Slots : GetTasksWrite(c)
  \/ \E c \in Slots : DeliverTasks(c)
  \/ \E r \in bg : BackendRequest(r)
  \/ LoadAfterWake
  \/ \E h \in {Listener} \cup Handlers : LoadFetched(h)
  \/ \E h \in {Listener} \cup Handlers : LoadLocal(h)
  \/ \E h \in Handlers, index \in 1..NumTasks : DismissInPopup(h, index)
  \/ \E h \in Handlers : HandlerReads(h)
  \/ \E h \in Handlers : Animated(h)
  \/ \E h \in Handlers : DeleteAnswered(h)
  \/ \E h \in Handlers : HandlerWrites(h)

SpecDecline == InitDecline /\ [][NextDecline]_vars

\* C21: the remote delete of a decline is best-effort.  Dashboard: the end of
\* a deleteFromBackend request, whatever its outcome, changes nothing of the
\* 'tasks' list, of the calls in flight or of the dashboard's state; the write
\* of declineTask leaves the task declined; handleDecline, resumed after
\* declineTask, issues the refresh and re-enables the card.  Popup: the end of
\* the DELETE request, whatever its outcome, takes the handler on to its
\* write, and that write leaves pendingTasks without the task.
C21_RemoteDeleteBestEffort ==
  /\ [][(bg' # bg /\ bg' \subseteq bg) => UNCHANGED <<store, calls, dashVars, popVars>>]_vars
  /\ [][\A c \in Slots :
          (At(c, "declineTask", "write") /\ calls'[c].pc = "done")
          => /\ calls'[c].res = "ok"
             /\ \E i \in 1..Len(store') :
                  store'[i].id = calls[c].taskId /\ store'[i].status = "declined"]_vars
  /\ [][\A c \in Slots :
          (calls[c].cont = "decline" /\ calls[c].pc = "done" /\ calls'[c] # calls[c])
          => /\ calls'[c].op = "getTasks" /\ calls'[c].pc = "start"
             /\ actionLoading'[calls[c].taskId] = "null"]_vars
  /\ [][\A h \in Handlers :
          (hta[h].pc = "delete" /\ hta'[h] # hta[h])
          => hta'[h].pc = "set" /\ pendingTasks' = pendingTasks]_vars
  /\ [][\A h \in Handlers :
          (hta[h].action = "dismiss" /\ hta[h].pc = "set" /\ hta'[h] # hta[h])
          => ~Holds(pendingTasks', hta[h].task)]_vars

\* Both remote deletes failed (the remote store still has tasks 1 and 2), task
\* 1 is declined in 'tasks' and displayed so, and the popup has dismissed
\* task 2 and rendered the list again.
C21_Witness ==
  /\ bg = {}
  /\ remote[1].status = "pending" /\ remote[2].status = "pending"
  /\ \E i \in 1..Len(store) : store[i].id = 1 /\ store[i].status = "declined"
  /\ \E i \in 1..Len(uiTasks) : uiTasks[i].id = 1 /\ uiTasks[i].status = "declined"
  /\ actionLoading[1] = "null"
  /\ \E h \in Handlers :
       /\ hta[h].action = "dismiss" /\ hta[h].pc = "done"
       /\ hta[h].task = LocalTask(2)
       /\ ~Holds(pendingTasks, LocalTask(2))

---------------------------------------------------------------------------
(* SpecSource: captures made on tabs of every URL *)

NextSource == \E k \in Clicks, url \in Urls : ContextMenuClick(k, url)

SpecSource == Init /\ [][NextSource]_vars

\* The URL holds a fragment of the group, in whatever case it is written
Mentions(url, group) == \E i \in 1..Len(url) : url[i].text \in group

\* C25: detectSource returns 'web' when the URL is absent; otherwise the first
\* matching group wins in the order email, chat, jira, matched without regard
\* to case, with 'web' when no fragment matches; so every URL containing an
\* email fragment yields 'email', also when it contains a chat or jira
\* fragment as well.
C25_FirstMatchingGroupWins ==
  \A k \in Clicks :
    cap[k].pc = "pinging" =>
      cap[k].source =
        (IF cap[k].url = <<>> THEN "web"
         ELSE IF Mentions(cap[k].url, EmailFragments) THEN "email"
         ELSE IF Mentions(cap[k].url, ChatFragments) THEN "chat"
         ELSE IF Mentions(cap[k].url, JiraFragments) THEN "jira"
         ELSE "web")

\* A capture on a URL that holds a chat fragment and then an email fragment
\* written in upper case was classified email, and one on a URL without any
\* fragment was classified web
C25_Witness ==
  \E j, k \in Clicks :
    /\ cap[j].pc = "pinging"
    /\ cap[j].url = <<[text |-> "slack.com", upper |-> FALSE],
                      [text |-> "/mail", upper |-> TRUE]>>
    /\ cap[j].source = "email"
    /\ cap[k].pc = "pinging"
    /\ cap[k].url = <<[text |-> "example.org", upper |-> TRUE]>>
    /\ cap[k].source = "web"

---------------------------------------------------------------------------
(* SpecTitle: 'Add to Jira' on a pending task of every text *)

InitTitle ==
  /\ InitForge
  /\ calls = [c \in Slots |-> Idle]
  /\ InitDash
  /\ Woken
  /\ InitCapture
  /\ \E d \in Texts : pendingTasks = <<[LocalTask(1) EXCEPT !.text = d]>>
  /\ popView = NotLoaded
  /\ hta = [h \in {Listener} \cup Handlers |-> HIdle]

NextTitle ==
  \/ LoadAfterWake
  \/ \E h \in {Listener} \cup Handlers : LoadFetched(h)
  \/ \E h \in {Listener} \cup Handlers : LoadLocal(h)
  \/ \E h \in Handlers : ClickTask(h, "add", 1)
  \/ \E h \in Handlers : HandlerReads(h)
  \/ \E h \in Handlers : SubmitAnswered(h)
  \/ \E h \in Handlers : FeedbackShown(h)
  \/ \E h \in Handlers : HandlerWrites(h)

SpecTitle == InitTitle /\ [][NextTitle]_vars

\* C26: for every task text d the generated title is the first 50 characters
\* of d followed by the ellipsis when d is longer than 50 characters (a text
\* of 65 characters gives 50 characters and the ellipsis), and the trimmed d
\* without ellipsis otherwise.
C26_TitleIsFirstFifty ==
  \A h \in Handlers :
    hta[h].pc = "submit" =>
      LET d == hta[h].task.text IN
        /\ length(d) > 50 =>
             /\ hta[h].title.ellipsis
             /\ hta[h].title.text = substring(d, 50)
             /\ length(hta[h].title.text) = 50
        /\ length(d) <= 50 =>
             /\ ~hta[h].title.ellipsis
             /\ hta[h].title.text = trim(d)

---------------------------------------------------------------------------
(* SpecFilter: the dashboard's filter over lists of pending, sent and      *)
(* declined tasks                                                          *)

NextFilter ==
  \/ \E id \in TaskIds : ClickSendToJira(id)
  \/ \E id \in TaskIds : ClickAssignOption(id)
  \/ \E id \in TaskIds : ClickDecline(id)
  \/ \E f \in {"all", "pending", "sent", "declined"} : SetFilter(f)
  \/ \E c \in Slots : GetTasksRead(c)
  \/ \E c \in Slots : GetTasksWrite(c)
  \/ \E c \in Slots : DeclineTaskRead(c)
  \/ \E c \in Slots : DeclineTaskWrite(c)
  \/ \E c \in Slots : SendToJiraRead(c)
  \/ \E c \in Slots : SendToJiraCreate(c)
  \/ \E c \in Slots : SendToJiraComment(c)
  \/ \E c \in Slots : SendToJiraWrite(c)
  \/ \E c \in Slots : DeliverTasks(c)
  \/ \E c \in Slots : DeliverSend(c)
  \/ \E c \in Slots : DeliverDecline(c)

SpecFilter == InitDashLive /\ [][NextFilter]_vars

\* The positions of `tasks` the filter f is to show
ToShow(f) ==
  {i \in 1..Len(uiTasks) :
     IF f = "all" THEN uiTasks[i].status # "declined" ELSE uiTasks[i].status = f}

\* C27: the filtered view shows exactly the tasks whose status is not declined
\* under 'all' and exactly the tasks of that status under 'pending', 'sent'
\* and 'declined', each once and in the order of the list; so no declined
\* task is on a card of the 'all' view.
C27_FilteredViewByStatus ==
  /\ Len(FilteredTasks) = Cardinality(ToShow(filter))
  /\ \A i \in 1..Len(uiTasks) :
       i \in ToShow(filter) <=> \E j \in 1..Len(FilteredTasks) : FilteredTasks[j] = uiTasks[i]
  /\ \A j, k \in 1..Len(FilteredTasks) :
       j < k => \E a, b \in ToShow(filter) :
                  a < b /\ uiTasks[a] = FilteredTasks[j] /\ uiTasks[b] = FilteredTasks[k]
  /\ filter = "all" => \A j \in 1..Len(Cards) : Cards[j].status # "declined"

\* After a refresh the list holds a declined and a sent task; the 'all' view
\* shows the sent one only
C27_Witness ==
  /\ filter = "all" /\ ~uiLoading
  /\ \E i, j \in 1..Len(uiTasks) :
       uiTasks[i].status = "declined" /\ uiTasks[j].status = "sent"
  /\ Len(Cards) = 1 /\ Cards[1].status = "sent"

---------------------------------------------------------------------------
(* SpecPriority: tasks added and submitted with and without a priority *)

\* invoke('addTask', payload)
InvokeAddTask(c) ==
  /\ FirstIdle(c)
  /\ invoked < MaxOps
  /\ invoked' = invoked + 1
  /\ calls' = [calls EXCEPT ![c] = NewCall("addTask", 0, "none")]
  /\ UNCHANGED <<store, remote, issues, bg, dashVars, wakeVars, extVars>>

NextPriority ==
  \/ \E c \in Slots : InvokeAddTask(c)
  \/ \E c \in Slots, priority \in PayloadPriorities : AddTaskRead(c, priority)
  \/ \E c \in Slots : AddTaskWrite(c)
  \/ \E c \in Slots : Return(c)
  \/ \E k \in Clicks : ContextMenuClick(k, <<>>)
  \/ \E k \in Clicks : PingAnswered(k)
  \/ \E k \in Clicks, priority \in PayloadPriorities : SubmitTaskMessage(k, priority)

SpecPriority == Init /\ [][NextPriority]_vars

\* The priority the spec gives a task that was handed over with priority p
Defaulted(p) == IF p \in {"highest", "high", "medium", "low"} THEN p ELSE "medium"

\* C28: addTask stores a task given without priority with priority medium and
\* status pending, and one given with a priority with that priority;
\* submitTaskToBackend posts priority medium for a task without priority and
\* the given priority otherwise.
C28_PriorityDefaultsToMedium ==
  /\ [][\A c \in Slots, p \in PayloadPriorities :
          AddTaskRead(c, p) =>
            /\ Head(calls'[c].tasks).priority = Defaulted(p)
            /\ Head(calls'[c].tasks).status = "pending"]_vars
  /\ [][\A c \in Slots : AddTaskWrite(c) => Head(store') = Head(calls[c].tasks)]_vars
  /\ [](\A k \in Clicks :
          cap[k].posted.given # "none" =>
            cap[k].posted.priority = Defaulted(cap[k].posted.given))

\* 'tasks' holds a task stored with priority high above one stored with
\* priority medium, both pending, and a task handed over without priority
\* was posted with priority medium
C28_Witness ==
  /\ Len(store) = 2
  /\ store[1].priority = "high" /\ store[1].status = "pending"
  /\ store[2].priority = "medium" /\ store[2].status = "pending"
  /\ \E k \in Clicks : cap[k].posted = [given |-> "absent", priority |-> "medium"]

---------------------------------------------------------------------------
(* SpecOrder: the resolvers that write the 'tasks' list, invoked on a list  *)
(* that earlier syncs left newest-first                                     *)

OrderOps == StorageOps \ {"clearTasks"}

InvokeOrder(c) ==
  /\ FirstIdle(c)
  /\ invoked < MaxOps
  /\ invoked' = invoked + 1
  /\ \E op \in OrderOps :
       \E id \in IF op \in TaskOps THEN TaskIds ELSE {0} :
         calls' = [calls EXCEPT ![c] = NewCall(op, id, "none")]
  /\ UNCHANGED <<store, remote, issues, bg, dashVars, wakeVars, extVars>>

InitOrder ==
  /\ \E n \in 0..NumTasks : SyncedBefore(n)
  /\ calls = [c \in Slots |-> Idle]
  /\ InitDash
  /\ InitWake
  /\ InitExt

NextOrder ==
  \/ \E c \in Slots : InvokeOrder(c)
  \/ \E c \in Slots : AddTaskRead(c, "absent")
  \/ \E c \in Slots : AddTaskWrite(c)
  \/ \E c \in Slots : DeclineTaskRead(c)
  \/ \E c \in Slots : DeclineTaskWrite(c)
  \/ \E c \in Slots : RestoreTaskRead(c)
  \/ \E c \in Slots : RestoreTaskWrite(c)
  \/ \E c \in Slots : SendToJiraRead(c)
  \/ \E c \in Slots : SendToJiraCreate(c)
  \/ \E c \in Slots : SendToJiraComment(c)
  \/ \E c \in Slots : SendToJiraWrite(c)
  \/ \E c \in Slots : DeleteTaskRead(c)
  \/ \E c \in Slots : DeleteTaskWrite(c)
  \/ \E c \in Slots : GetTasksRead(c)
  \/ \E c \in Slots : GetTasksWrite(c)
  \/ \E c \in Slots : SyncFromBackendFetch(c)
  \/ \E c \in Slots : SyncFromBackendRead(c)
  \/ \E c \in Slots : SyncFromBackendWrite(c)
  \/ \E c \in Slots : Return(c)

SpecOrder == InitOrder /\ [][NextOrder]_vars

\* Records a and b are in both lists
InBoth(before, after, a, b) ==
  {a, b} \subseteq IdsOf(before) \cap IdsOf(after)

\* The records that are in both lists stand in the same order in both
RelativeOrderKept(before, after) ==
  \A a, b \in TaskIds :
    InBoth(before, after, a, b) =>
      (FindIndex(before, a) < FindIndex(before, b)
         <=> FindIndex(after, a) < FindIndex(after, b))

\* The records that are in the list after and were not before stand above
\* every record that was
NewAtHead(before, after) ==
  \A a \in IdsOf(after) \ IdsOf(before), b \in IdsOf(before) :
    /\ b \in IdsOf(after)
    /\ FindIndex(after, a) < FindIndex(after, b)

\* C29: the 'tasks' list is kept newest-first: addTask and syncFromBackend
\* put each record they create at the head of the list they read and write
\* that list, and no write of a resolver changes the relative order of the
\* records already in the 'tasks' list.
C29_NewestFirst ==
  [][/\ \A c \in Slots :
          AddTaskRead(c, "absent") =>
            /\ Head(calls'[c].tasks).id = calls'[c].taskId
            /\ Tail(calls'[c].tasks) = store
     /\ \A c \in Slots :
          SyncFromBackendRead(c) =>
            /\ NewAtHead(store, calls'[c].tasks)
            /\ RelativeOrderKept(store, calls'[c].tasks)
     /\ \A c \in Slots :
          (AddTaskWrite(c) \/ SyncFromBackendWrite(c)) => store' = calls[c].tasks
     /\ RelativeOrderKept(store, store')]_vars

---------------------------------------------------------------------------
(* SpecRestore: declineTask, then restoreTask once declineTask has         *)
(* returned, on the lists that earlier sessions left.  uiTasks is the list *)
(* the dashboard loaded before the two calls.                               *)

InvokeDecline(c) ==
  /\ FirstIdle(c)
  /\ invoked = 0
  /\ invoked' = invoked + 1
  /\ \E id \in TaskIds : calls' = [calls EXCEPT ![c] = NewCall("declineTask", id, "none")]
  /\ UNCHANGED <<store, remote, issues, bg, dashVars, wakeVars, extVars>>

InvokeRestore(c) ==
  /\ FirstIdle(c)
  /\ invoked = 1
  /\ \A d \in Slots : calls[d].op = "declineTask" => calls[d].pc = "done"
  /\ invoked' = invoked + 1
  /\ \E id \in TaskIds : calls' = [calls EXCEPT ![c] = NewCall("restoreTask", id, "none")]
  /\ UNCHANGED <<store, remote, issues, bg, dashVars, wakeVars, extVars>>

InitRestore ==
  /\ \E n \in 0..NumTasks :
       \E f \in [1..n -> {"pending", "sent", "declined"}] :
         \E g \in [TaskIds -> {"absent", "pending", "sent"}] : LeftBefore(n, f, g)
  /\ bg = {}
  /\ invoked = 0
  /\ calls = [c \in Slots |-> Idle]
  /\ uiTasks = store
  /\ uiLoading = FALSE
  /\ filter = "all"
  /\ showAssignModal = 0
  /\ actionLoading = [id \in TaskIds |-> "null"]
  /\ syncing = FALSE
  /\ InitWake
  /\ InitExt

NextRestore ==
  \/ \E c \in Slots : InvokeDecline(c)
  \/ \E c \in Slots : DeclineTaskRead(c)
  \/ \E c \in Slots : DeclineTaskWrite(c)
  \/ \E c \in Slots : InvokeRestore(c)
  \/ \E c \in Slots : RestoreTaskRead(c)
  \/ \E c \in Slots : RestoreTaskWrite(c)

SpecRestore == InitRestore /\ [][NextRestore]_vars

\* declineTask(id) has returned success and restoreTask(id), invoked after
\* it, has returned
DeclinedThenRestored(id) ==
  \E d, r \in Slots :
    /\ calls[d].op = "declineTask" /\ calls[d].taskId = id
    /\ calls[d].pc = "done" /\ calls[d].res = "ok"
    /\ calls[r].op = "restoreTask" /\ calls[r].taskId = id
    /\ calls[r].pc = "done"

WasPending(id) ==
  FindIndex(uiTasks, id) # 0 /\ uiTasks[FindIndex(uiTasks, id)].status = "pending"

\* C30: for every pending task, declineTask followed by restoreTask on the
\* same id leaves the 'tasks' list equal to the list before the decline:
\* status pending, no declinedAt, every other field and the order unchanged.
C30_RestoreUndoesDecline ==
  \A id \in TaskIds :
    (WasPending(id) /\ DeclinedThenRestored(id)) =>
      /\ store = uiTasks
      /\ \A r \in Slots : calls[r].op = "restoreTask" => calls[r].res = "ok"

\* The older of two tasks, pending below a sent one, was declined and then
\* restored
C30_Witness ==
  /\ Len(uiTasks) = 2
  /\ uiTasks[1].status = "sent"
  /\ WasPending(uiTasks[2].id)
  /\ DeclinedThenRestored(uiTasks[2].id)
  /\ \E d \in Slots : calls[d].op = "declineTask" /\ calls[d].tasks[2].declinedAt

---------------------------------------------------------------------------
(* Properties of getTasks among the other resolvers (SpecOrder) *)

\* The ids of a list, in its order
IdSeq(tasks) == [i \in 1..Len(tasks) |-> tasks[i].id]

\* The same records are in both lists, each with the same status and jiraKey
SameMembersAndStatus(before, after) ==
  /\ IdSeq(after) = IdSeq(before)
  /\ \A i \in 1..Len(before) :
       /\ after[i].status = before[i].status
       /\ after[i].jiraKey = before[i].jiraKey

\* C31: the write-back of getTasks never changes the membership of the
\* 'tasks' list nor the status or jiraKey of a task, also when other resolvers
\* have committed updates between its read and its write.
C31_GetTasksKeepsUpdates ==
  [][\A c \in Slots : GetTasksWrite(c) => SameMembersAndStatus(store, store')]_vars

---------------------------------------------------------------------------
(* The task a popup handler acts on (SpecPopup) *)

\* Two records of one task: the record loadTasks makes of a backend task and
\* the record pendingTasks holds of it carry the same ids
SameTask(a, b) == a.id = b.id /\ a.rid = b.rid

\* The handler has read pendingTasks and taken tasks[index]
HasTaken(h) == hta[h].pc \in {"submit", "feedback", "animate", "delete", "set", "threw"}

\* C32: the task that handleTaskAction submits, deletes remotely and removes
\* from pendingTasks is the task shown on the card whose button was clicked:
\* the task it takes from pendingTasks is the card's, and its write removes
\* from pendingTasks the card's task and no other.
C32_ActsOnClickedCard ==
  /\ [](\A h \in Handlers : HasTaken(h) => SameTask(hta[h].task, hta[h].card))
  /\ [][\A h \in Handlers :
          HandlerWrites(h) =>
            \A i \in 1..Len(pendingTasks) :
              Holds(pendingTasks', pendingTasks[i])
                <=> ~SameTask(pendingTasks[i], hta[h].card)]_vars

---------------------------------------------------------------------------
(* SpecRemoved: Delete, Clear all and Sync on the dashboard, each clicked   *)
(* once the requests of the click before it are over.  Every task is in    *)
(* the 'tasks' list at first, so a task that is not in the list has been   *)
(* removed by Delete or Clear all.                                          *)

DeleteWhenQuiet(id) == Quiet /\ ClickDelete(id)

ClearAllWhenQuiet(answer) == Quiet /\ ClickClearAll(answer)

SyncWhenQuiet == Quiet /\ ClickSync

\* The tasks were synced from the remote store and some were declined in an
\* earlier session; the remote store deleted a declined task if the request
\* of handleDecline reached it.  The dashboard is mounting.
InitRemoved ==
  /\ \E f \in [1..NumTasks -> {"pending", "declined"}] :
       \E g \in [TaskIds -> {"absent", "pending"}] :
         /\ \A id \in TaskIds : f[id] = "pending" => g[id] = "pending"
         /\ LeftBefore(NumTasks, f, g)
  /\ bg = {}
  /\ invoked = 0
  /\ calls = [c \in Slots |-> IF c = 1 THEN NewCall("getTasks", 0, "load") ELSE Idle]
  /\ InitDash
  /\ InitWake
  /\ InitExt

NextRemoved ==
  \/ \E id \in TaskIds : DeleteWhenQuiet(id)
  \/ \E answer \in BOOLEAN : ClearAllWhenQuiet(answer)
  \/ SyncWhenQuiet
  \/ \E f \in {"all", "declined"} : SetFilter(f)
  \/ \E c \in Slots : DeliverTasks(c)
  \/ \E c \in Slots : DeliverRestoreDelete(c)
  \/ \E c \in Slots : DeliverClear(c)
  \/ \E c \in Slots : DeliverSync(c)
  \/ \E c \in Slots : GetTasksRead(c)
  \/ \E c \in Slots : GetTasksWrite(c)
  \/ \E c \in Slots : DeleteTaskRead(c)
  \/ \E c \in Slots : DeleteTaskWrite(c)
  \/ \E c \in Slots : ClearTasksWrite(c)
  \/ \E c \in Slots : SyncFromBackendFetch(c)
  \/ \E c \in Slots : SyncFromBackendRead(c)
  \/ \E c \in Slots : SyncFromBackendWrite(c)

SpecRemoved == InitRemoved /\ [][NextRemoved]_vars

\* The tasks Delete or Clear all have removed from the list
RemovedIds == TaskIds \ IdsOf(store)

\* C33: a task removed from the 'tasks' list by Delete or Clear all is removed
\* permanently: no syncFromBackend invoked later puts a record with its id
\* into the list it writes, and the list it stores holds none.
C33_RemovedStaysRemoved ==
  [][\A c \in Slots :
       /\ SyncFromBackendRead(c) => IdsOf(calls'[c].tasks) \cap RemovedIds = {}
       /\ SyncFromBackendWrite(c) => IdsOf(store') \cap RemovedIds = {}]_vars

---------------------------------------------------------------------------
(* SpecSubmit: 'Add to Jira' in the popup; every fetch of the background    *)
(* worker settles and its promise callbacks run                             *)

NextSubmit ==
  \/ LoadAfterWake
  \/ \E h \in {Listener} \cup Handlers : LoadFetched(h)
  \/ \E h \in {Listener} \cup Handlers : LoadLocal(h)
  \/ \E h \in Handlers, index \in 1..NumTasks : ClickTask(h, "add", index)
  \/ \E h \in Handlers : HandlerReads(h)
  \/ \E h \in Handlers : SubmitAnswered(h)
  \/ \E h \in Handlers : FeedbackShown(h)
  \/ \E h \in Handlers : HandlerWrites(h)
  \/ BackendWakes
  \/ BackendSleeps

SpecSubmit ==
  /\ InitPopupOpened
  /\ [][NextSubmit]_vars
  /\ \A h \in Handlers : WF_vars(SubmitAnswered(h))

Answered(h) == hta[h].resp # NoResponse

\* POST /tasks did not store the task, or its answer cannot be parsed
SubmitFailed(o) == o.status \in {"none", "non2xx"} \/ o.body = "notjson"

\* C34: every submitTask message is eventually answered, and answered once:
\* with success true only when the backend stored the task (and always when
\* it answered 2xx with a JSON object), with success false and an error on
\* every failure (network error, non-2xx, unparsable body); an answer given
\* is never followed by another.
C34_AnsweredExactlyOnce ==
  /\ \A h \in Handlers : (hta[h].pc = "submit") ~> Answered(h)
  /\ [][\A h \in Handlers : Answered(h) => hta'[h].resp = hta[h].resp]_vars
  /\ [](\A h \in Handlers :
          /\ hta[h].pc = "submit" => ~Answered(h)
          /\ Answered(h) =>
               /\ hta[h].resp.success => hta[h].sub.status = "2xx"
               /\ hta[h].resp.success => hta[h].resp.error = "none"
               /\ SubmitFailed(hta[h].sub) =>
                    ~hta[h].resp.success /\ hta[h].resp.error # "none"
               /\ (hta[h].sub.status = "2xx" /\ hta[h].sub.body \in {"plain", "error"})
                    => hta[h].resp.success)

\* One message was answered with success and another, whose fetch was
\* rejected, with success false
C34_Witness ==
  \E g, h \in Handlers :
    /\ hta[g].sub.status = "2xx" /\ hta[g].resp.success
    /\ hta[h].sub.status = "none" /\ hta[h].resp = [success |-> FALSE, error |-> "network"]

---------------------------------------------------------------------------
(* The resolvers given an id that is not in the list (Spec) *)

Missing(c) == FindIndex(store, calls[c].taskId) = 0

\* declineTask, restoreTask or sendToJira reads the list
Looks(c) == DeclineTaskRead(c) \/ RestoreTaskRead(c) \/ SendToJiraRead(c)

\* C35: for an id that is not in the 'tasks' list, the storage-variant
\* declineTask, restoreTask and sendToJira return success false with 'Task
\* not found', write nothing to storage and issue no tracker request; the
\* backend-variant sendToJira returns without creating an issue when the
\* task fetch fails or answers non-2xx; a resolver that has returned takes
\* no further step.
C35_NotFoundDoesNothing ==
  [][\A c \in Slots :
       /\ (Looks(c) /\ Missing(c)) =>
            /\ calls'[c].pc = "done"
            /\ calls'[c].res = "fail"
            /\ calls'[c].error = "Task not found"
            /\ ~calls'[c].wrote /\ calls'[c].key = 0
            /\ store' = store /\ issues' = issues
       /\ (BackendSendFetch(c) /\ calls'[c].pc # "create") =>
            /\ calls'[c].pc = "done"
            /\ calls'[c].res = "fail"
            /\ calls'[c].key = 0
            /\ issues' = issues /\ remote' = remote
       /\ calls[c].pc = "done" =>
            /\ calls'[c] \in {calls[c], Idle}
            /\ calls'[c] # calls[c] => store' = store /\ issues' = issues]_vars

\* sendToJira was given an id that is not in the list, which holds another
\* task: it has returned 'Task not found' and the tracker holds no issue
C35_Witness ==
  \E c \in Slots :
    /\ calls[c].op = "sendToJira"
    /\ calls[c].pc = "done"
    /\ calls[c].error = "Task not found"
    /\ Len(store) = 1
    /\ store[1].id # calls[c].taskId
    /\ issues = <<>>

====
